---- MODULE Spec2Model ----
(***************************************************************************)
(* A model of the tree manipulation engine of ts-simple-ast: the wrapper   *)
(* cache (KeyValueCache and the compiler factory built on it), the Node    *)
(* wrapper with its dispose protocol, and the edit path                    *)
(* replaceWithText -> insertIntoParent -> reconciler.                      *)
(*                                                                         *)
(* The specifications of the module:                                       *)
(*   SpecKV         the KeyValueCache class on its own;                    *)
(*   Spec           wrappers, the cache, lookups, disposal and edits over  *)
(*                  a small source file;                                   *)
(*   SpecHandler, SpecInsert                                               *)
(*                  the manipulation functions driven directly;            *)
(*   SpecNavigate   navigation by position and among siblings;             *)
(*   SpecExport     ExportableNode.setIsExported;                          *)
(*   SpecDefaultExport                                                     *)
(*                  ExportableNode.setIsDefaultExport;                     *)
(*   SpecBraces     insertIntoBracesOrSourceFile;                          *)
(*   SpecDecorator  Decorator.remove;                                      *)
(*   SpecHost       DefaultFileSystemHost over a small disk;               *)
(*   SpecDispose    dispose() followed step by step;                       *)
(*   SpecQuery      the position queries of a node;                        *)
(*   SpecOffset     offsetPositions.                                       *)
(***************************************************************************)
EXTENDS Integers, Sequences, FiniteSets, TLC

VARIABLES
    kvItems,    \* SpecKV: cacheItems of the cache under test
    kvLast,     \* SpecKV: the last call, its outcome and the items before it
    trees,      \* the compiler's source files, one per parse: [text, root]
    wr,         \* the wrappers ever constructed: id -> [cn, sf]
    cache,      \* compilerFactory.nodeCache.cacheItems: compiler node -> wrapper
    held,       \* the wrappers client code has been handed
    changes,    \* how many disposing or editing calls client code has made
    last,       \* the call client code has just made and its outcome, or idle
    disk,       \* SpecHost: what each path is: "none", "file" or "dir"
    pending,    \* SpecHost: the asynchronous calls whose callback has not run
    hostLast    \* SpecHost: the last call that ended, and how

kvVars == <<kvItems, kvLast>>
engineVars == <<trees, wr, cache, held, changes, last>>
hostVars == <<disk, pending, hostLast>>
vars == <<kvItems, kvLast, trees, wr, cache, held, changes, last, disk, pending, hostLast>>

(***************************************************************************)
(* JavaScript values.  Every value stored in a cache is a tuple, so that   *)
(* any two of them can be compared: undefined is the empty tuple, the      *)
(* number n is <<n>>, an object is a longer tuple (its identity).          *)
(***************************************************************************)
undefined == <<>>

Num(n) == <<n>>

\* The boolean b as a value a call hands back
Boolean(b) == <<b>>

\* JavaScript truthiness of a stored value: `x || undefined` keeps x only
\* when x is truthy; undefined and the number 0 are falsy.
Truthy(v) == v # undefined /\ v # Num(0)

(***************************************************************************)
(* Errors: the class of the thrown object and its message.                 *)
(***************************************************************************)
\* inner is empty, or holds the one error a wrapping error was built from.
NoError == [kind |-> "none", message |-> "", inner |-> <<>>]

Err(kind, message) == [kind |-> kind, message |-> message, inner |-> <<>>]

KeyNotFound == Err("Error", "Key not found.")

(***************************************************************************)
(* KeyValueCache (src/src/utils/KeyValueCache.ts).  cacheItems is a Map:   *)
(* a function from the keys present to their values.                       *)
(***************************************************************************)
EmptyMap == [k \in {} |-> undefined]

MapHas(items, key) == key \in DOMAIN items

MapSet(items, key, value) ==
    [k \in (DOMAIN items) \cup {key} |-> IF k = key THEN value ELSE items[k]]

MapDelete(items, key) == [k \in (DOMAIN items) \ {key} |-> items[k]]

\* get(key): this.cacheItems.get(key) || undefined
KVGet(items, key) ==
    IF MapHas(items, key) /\ Truthy(items[key]) THEN items[key] ELSE undefined

\* set(key, value): this.cacheItems.set(key, value)
KVSet(items, key, value) == MapSet(items, key, value)

\* removeByKey(key): this.cacheItems.delete(key)
KVRemoveByKey(items, key) == MapDelete(items, key)

\* replaceKey(key, newKey): throws when key is absent, else moves the value.
KVReplaceKeyGuarded(items, key, newKey) ==
    IF ~MapHas(items, key)
    THEN [items |-> items, err |-> KeyNotFound]
    ELSE IF MapHas(items, newKey) /\ newKey # key
         THEN [items |-> items,
               err |-> Err("InvalidOperationError", "Key already exists.")]
         ELSE [items |-> MapSet(MapDelete(items, key), newKey, items[key]),
               err |-> NoError]

KVReplaceKey(items, key, newKey) ==
    IF ~MapHas(items, key)
    THEN [items |-> items, err |-> KeyNotFound]
    ELSE [items |-> MapSet(MapDelete(items, key), newKey, items[key]),
          err |-> NoError]

\* getOrCreate(key, createFunc): created is what createFunc() returns; it is
\* called exactly when get(key) == null.
KVGetOrCreate(items, key, created) ==
    LET item == KVGet(items, key) IN
    IF item = undefined
    THEN [items |-> KVSet(items, key, created), ret |-> created, called |-> TRUE]
    ELSE [items |-> items, ret |-> item, called |-> FALSE]

(***************************************************************************)
(* SpecKV: the KeyValueCache on its own.                                   *)
(***************************************************************************)
MaxKeys == 3
MaxVals == 2

KVKeys == 1..MaxKeys
KVValues == {Num(n) : n \in 0..MaxVals}

KVRecord(op, key, newKey, value, err, ret, pre) ==
    [op |-> op, key |-> key, newKey |-> newKey, value |-> value,
     err |-> err, ret |-> ret, pre |-> pre]

KVStart ==
    /\ kvItems = EmptyMap
    /\ kvLast = KVRecord("new", 0, 0, undefined, NoError, undefined, EmptyMap)

KVDoSet(k, v) ==
    /\ kvItems' = KVSet(kvItems, k, v)
    /\ kvLast' = KVRecord("set", k, 0, v, NoError, undefined, kvItems)

KVDoGetOrCreate(k, v) ==
    LET r == KVGetOrCreate(kvItems, k, v) IN
    /\ kvItems' = r.items
    /\ kvLast' = KVRecord(IF r.called THEN "getOrCreate-miss" ELSE "getOrCreate-hit",
                          k, 0, v, NoError, r.ret, kvItems)

KVDoReplaceKey(k, nk) ==
    LET r == KVReplaceKey(kvItems, k, nk) IN
    /\ kvItems' = r.items
    /\ kvLast' = KVRecord("replaceKey", k, nk, undefined, r.err, undefined, kvItems)

KVDoRemoveByKey(k) ==
    /\ kvItems' = KVRemoveByKey(kvItems, k)
    /\ kvLast' = KVRecord("removeByKey", k, 0, undefined, NoError, undefined, kvItems)

KVNext ==
    \/ \E k \in KVKeys, v \in KVValues : KVDoSet(k, v)
    \/ \E k \in KVKeys, v \in KVValues : KVDoGetOrCreate(k, v)
    \/ \E k \in KVKeys, nk \in KVKeys : KVDoReplaceKey(k, nk)
    \/ \E k \in KVKeys : KVDoRemoveByKey(k)


(***************************************************************************)
(* The compiler front end, as far as the engine consumes it: parse(text)   *)
(* gives an immutable tree of compiler nodes, each with a kind, pos (with  *)
(* leading trivia), start (without), end and ordered children.  The        *)
(* language here is a small one with the same shape as the real one:       *)
(*   SourceFile  := SyntaxList EndOfFileToken                              *)
(*   statement   := Identifier            a run of letters                 *)
(*                | ModuleDeclaration     "{" statements "}", a bodied     *)
(*                                        node whose body is a ModuleBlock *)
(*   ModuleBlock := OpenBraceToken SyntaxList CloseBraceToken              *)
(* A declaration may start with decorators ("@" and a name) and modifiers  *)
(* ("e" for the export keyword, "d" for the default keyword); each kind,   *)
(* when there is any, is a SyntaxList child in front of the body.          *)
(* Spaces and newlines are trivia.  A text is a sequence of characters;    *)
(* positions count from 0 as in the source.                                *)
(***************************************************************************)
Letters == {"x", "y"}
Trivia == {" ", "\n", "\r"}
Keywords == {"e", "d"}

\* text[p] of the source: the empty string stands for undefined.
CharAt(text, p) == IF p >= 0 /\ p < Len(text) THEN text[p + 1] ELSE ""

\* text.substring(from, to), clamped like the source's.
Clamp(n, lo, hi) == IF n < lo THEN lo ELSE IF n > hi THEN hi ELSE n

Substring(text, from, to) ==
    LET a == Clamp(from, 0, Len(text))
        b == Clamp(to, 0, Len(text))
    IN  IF a <= b THEN SubSeq(text, a + 1, b) ELSE SubSeq(text, b + 1, a)

RECURSIVE SkipTrivia(_, _)
SkipTrivia(text, p) ==
    IF CharAt(text, p) \in Trivia THEN SkipTrivia(text, p + 1) ELSE p

RECURSIVE IdentifierEnd(_, _)
IdentifierEnd(text, p) ==
    IF CharAt(text, p) \in Letters THEN IdentifierEnd(text, p + 1) ELSE p

CompilerNode(kind, pos, start, end, kids) ==
    [kind |-> kind, pos |-> pos, start |-> start, end |-> end, kids |-> kids]

Token(kind, pos, start, end) == CompilerNode(kind, pos, start, end, <<>>)

\* A SyntaxList spans its children; an empty one is the empty range at p.
SyntaxListOf(kids, p) ==
    IF kids = <<>>
    THEN CompilerNode("SyntaxList", p, p, p, <<>>)
    ELSE CompilerNode("SyntaxList", kids[1].pos, kids[1].start,
                      kids[Len(kids)].end, kids)

\* The decorators from position p: [kids, next]
RECURSIVE ParseDecorators(_, _)
ParseDecorators(text, p) ==
    LET Named(q, e) ==
            LET rest == ParseDecorators(text, e)
            IN  [kids |-> <<CompilerNode("Decorator", p, q, e,
                                <<Token("AtToken", p, q, q + 1),
                                  Token("Identifier", q + 1, q + 1, e)>>)>> \o rest.kids,
                 next |-> rest.next]
        At(q) == IF CharAt(text, q) = "@" THEN Named(q, IdentifierEnd(text, q + 1))
                 ELSE [kids |-> <<>>, next |-> p]
    IN  At(SkipTrivia(text, p))

\* The modifiers from position p: [kids, next]
RECURSIVE ParseModifiers(_, _)
ParseModifiers(text, p) ==
    LET Keyword(q) ==
            LET rest == ParseModifiers(text, q + 1)
            IN  [kids |-> <<Token(IF text[q + 1] = "e" THEN "ExportKeyword"
                                  ELSE "DefaultKeyword", p, q, q + 1)>> \o rest.kids,
                 next |-> rest.next]
        At(q) == IF CharAt(text, q) \in Keywords THEN Keyword(q)
                 ELSE [kids |-> <<>>, next |-> p]
    IN  At(SkipTrivia(text, p))

\* The SyntaxList of a declaration's decorators or modifiers, if it has any
ListIfAny(kids) == IF kids = <<>> THEN <<>> ELSE <<SyntaxListOf(kids, 0)>>

\* The statements from position p up to the end of the text or a closing
\* brace: [kids, next], next being the position after the last statement.
RECURSIVE ParseStatements(_, _)
ParseStatements(text, p) ==
    LET q == SkipTrivia(text, p)
        c == CharAt(text, q)
    IN  IF c \in Letters
        THEN LET e == IdentifierEnd(text, q)
                 rest == ParseStatements(text, e)
             IN  [kids |-> <<Token("Identifier", p, q, e)>> \o rest.kids,
                  next |-> rest.next]
        ELSE IF c \in {"{", "@"} \cup Keywords
        THEN LET Declaration(front, bpos, b) ==
                     LET inner == ParseStatements(text, b + 1)
                         r == SkipTrivia(text, inner.next)
                         closed == CharAt(text, r) = "}"
                         bend == IF closed THEN r + 1 ELSE inner.next
                         close == IF closed
                                  THEN <<Token("CloseBraceToken", inner.next, r, r + 1)>>
                                  ELSE <<>>
                         block == CompilerNode("ModuleBlock", bpos, b, bend,
                                      <<Token("OpenBraceToken", bpos, b, b + 1),
                                        SyntaxListOf(inner.kids, b + 1)>> \o close)
                         decl == CompilerNode("ModuleDeclaration", p, q, bend,
                                              front \o <<block>>)
                         rest == ParseStatements(text, bend)
                     IN  [kids |-> <<decl>> \o rest.kids, next |-> rest.next]
                 Body(decs, mods, b) ==
                     IF CharAt(text, b) # "{" THEN [kids |-> <<>>, next |-> p]
                     ELSE Declaration(ListIfAny(decs.kids) \o ListIfAny(mods.kids),
                                      IF decs.kids = <<>> /\ mods.kids = <<>>
                                      THEN b ELSE mods.next, b)
                 Modifiers(decs, mods) == Body(decs, mods, SkipTrivia(text, mods.next))
                 Decorators(decs) == Modifiers(decs, ParseModifiers(text, decs.next))
             IN  Decorators(ParseDecorators(text, p))
        ELSE [kids |-> <<>>, next |-> p]

\* parseSourceFile(text)
Parse(text) ==
    LET list == ParseStatements(text, 0) IN
    CompilerNode("SourceFile", 0, SkipTrivia(text, 0), Len(text),
        <<SyntaxListOf(list.kids, 0),
          Token("EndOfFileToken", list.next, SkipTrivia(text, list.next), Len(text))>>)


(***************************************************************************)
(* Compiler nodes are identified by the parse that made them and their     *)
(* path from its root: <<g, path>>.  A parse makes fresh nodes.            *)
(***************************************************************************)
RECURSIVE NodeAt(_, _)
NodeAt(node, path) ==
    IF path = <<>> THEN node ELSE NodeAt(node.kids[Head(path)], Tail(path))

\* The engine's state as one value, threaded through the calls below.
State(t, w, c) == [trees |-> t, wr |-> w, cache |-> c]

CN(s, c) == NodeAt(s.trees[c[1]].root, c[2])

\* compilerNode.getChildren()
ChildrenOf(s, c) == [i \in 1..Len(CN(s, c).kids) |-> <<c[1], Append(c[2], i)>>]

\* compilerNode.parent: a SyntaxList exists only among getChildren(), so the
\* parent is the nearest ancestor that is not one
RECURSIVE ParentOf(_, _)
ParentOf(s, c) ==
    IF c[2] = <<>> THEN undefined
    ELSE LET p == <<c[1], SubSeq(c[2], 1, Len(c[2]) - 1)>>
         IN  IF CN(s, p).kind = "SyntaxList" /\ CN(s, c).kind # "SyntaxList"
             THEN ParentOf(s, p) ELSE p

RootOf(g) == <<g, <<>>>>

\* sourceFile.text of the source file compiler node c belongs to
TextOf(s, c) == s.trees[c[1]].text

RECURSIVE SubtreeOf(_, _)
SubtreeOf(s, c) ==
    {c} \cup UNION {SubtreeOf(s, ChildrenOf(s, c)[i]) : i \in 1..Len(CN(s, c).kids)}

(***************************************************************************)
(* The outcome of a call: the state it leaves, the error it threw (or      *)
(* NoError) and what it returned.  What a call changed before it threw     *)
(* stays changed.                                                          *)
(***************************************************************************)
Ok(s, ret) == [s |-> s, err |-> NoError, ret |-> ret]
Throw(s, e) == [s |-> s, err |-> e, ret |-> undefined]
Failed(r) == r.err.kind # "none"

RemovedNodeError ==
    Err("InvalidOperationError",
        "Attempted to get information from a node that was removed from the AST.")

(***************************************************************************)
(* Node (src/src/DefaultFileSystemHost.ts, lines 120-1021) and the         *)
(* compiler factory.  A wrapper is [cn, sf]: _compilerNode (undefined once *)
(* disposed) and sourceFile, the wrapper of its source file.               *)
(***************************************************************************)
\* get compilerNode(): throws on a disposed wrapper
IsDisposed(s, w) == s.wr[w].cn = undefined

Range(seq) == {seq[i] : i \in 1..Len(seq)}

\* The identity of the next wrapper constructed for compiler node c.
NewWrapperId(s, c) == <<c, 1 + Cardinality({w \in DOMAIN s.wr : w[1] = c})>>

\* CompilerFactory.getNodeFromCompilerNode(c, sourceFile): the cached wrapper,
\* or a new one registered under c.  A SourceFile is its own source file.
GetNodeFromCompilerNode(s, c, sf) ==
    LET Made(id) == [cn |-> c, sf |-> IF CN(s, c).kind = "SourceFile" THEN id ELSE sf]
        Create(id, r) ==
            IF r.called
            THEN Ok([s EXCEPT !.cache = r.items, !.wr = MapSet(s.wr, id, Made(id))], id)
            ELSE Ok(s, r.ret)
        Lookup(id) == Create(id, KVGetOrCreate(s.cache, c, id))
    IN  Lookup(NewWrapperId(s, c))

\* CompilerFactory.removeNodeFromCache(w): deletes w's entry, if it has one
RemoveNodeFromCache(s, w) ==
    LET c == s.wr[w].cn IN
    IF c # undefined /\ MapHas(s.cache, c) /\ s.cache[c] = w
    THEN [s EXCEPT !.cache = KVRemoveByKey(s.cache, c)]
    ELSE s

\* A state may carry a log of the order in which wrappers are rebound and
\* released during one call: Logged(s) is s with an empty log, and Note adds
\* an event to the log of a state that carries one.
Logged(s) == [trees |-> s.trees, wr |-> s.wr, cache |-> s.cache, log |-> <<>>]

Note(s, what, w, before) ==
    IF "log" \in DOMAIN before
    THEN [s EXCEPT !.log = Append(@, [what |-> what, w |-> w, cn |-> before.wr[w].cn])]
    ELSE s

\* Node.replaceCompilerNode(compilerNode)
NodeReplaceCompilerNodeSkip(s, w, c) == s

NodeReplaceCompilerNode(s, w, c) == Note([s EXCEPT !.wr[w].cn = c], "rebound", w, s)

\* CompilerFactory.replaceCompilerNode(w, newNode): moves w's cache entry to
\* newNode and rebinds w.
FactoryReplaceCompilerNode(s, w, newNode) ==
    LET Rebind(r) ==
            IF r.err.kind # "none"
            THEN Throw(s, r.err)
            ELSE Ok(NodeReplaceCompilerNode([s EXCEPT !.cache = r.items], w, newNode),
                    undefined)
    IN  IF IsDisposed(s, w) THEN Throw(s, RemovedNodeError)
        ELSE Rebind(KVReplaceKey(s.cache, s.wr[w].cn, newNode))

RECURSIVE WrapEach(_, _, _, _)
WrapEach(s, cs, sf, acc) ==
    LET Rest(r) == WrapEach(r.s, Tail(cs), sf, Append(acc, r.ret))
    IN  IF cs = <<>> THEN Ok(s, acc)
        ELSE Rest(GetNodeFromCompilerNode(s, Head(cs), sf))

\* getChildren(): every compiler child through the factory
GetChildren(s, w) ==
    IF IsDisposed(s, w) THEN Throw(s, RemovedNodeError)
    ELSE WrapEach(s, ChildrenOf(s, s.wr[w].cn), s.wr[w].sf, <<>>)

\* getParent()
GetParent(s, w) ==
    IF IsDisposed(s, w) THEN Throw(s, RemovedNodeError)
    ELSE IF ParentOf(s, s.wr[w].cn) = undefined THEN Ok(s, undefined)
    ELSE GetNodeFromCompilerNode(s, ParentOf(s, s.wr[w].cn), s.wr[w].sf)

\* disposeOnlyThis()
DisposeOnlyThisKeepEntry(s, w) == Ok([s EXCEPT !.wr[w].cn = undefined], undefined)

\* disposeOnlyThis() reaching the wrappers of the children too
DisposeOnlyThisAndChildren(s, w) ==
    LET gone == IF IsDisposed(s, w) THEN {}
                ELSE {s.wr[w].cn} \cup Range(ChildrenOf(s, s.wr[w].cn))
    IN  Ok([s EXCEPT !.cache = [k \in DOMAIN s.cache \ gone |-> s.cache[k]],
                     !.wr = [v \in DOMAIN s.wr |->
                                IF v = w \/ s.wr[v].cn \in gone
                                THEN [s.wr[v] EXCEPT !.cn = undefined] ELSE s.wr[v]]],
           undefined)

DisposeOnlyThis(s, w) ==
    Ok(Note([RemoveNodeFromCache(s, w) EXCEPT !.wr[w].cn = undefined], "disposed", w, s),
       undefined)

\* dispose(): the children first, each recursively, then this wrapper
RECURSIVE Dispose(_, _)
RECURSIVE DisposeEach(_, _)
DisposeEach(s, ws) ==
    LET Rest(r) == IF Failed(r) THEN r ELSE DisposeEach(r.s, Tail(ws))
    IN  IF ws = <<>> THEN Ok(s, undefined) ELSE Rest(Dispose(s, Head(ws)))

DisposeShallow(s, w) == DisposeOnlyThis(s, w)

Dispose(s, w) ==
    LET OnlyThis(r) == IF Failed(r) THEN r ELSE DisposeOnlyThis(r.s, w)
        Children(ch) == IF Failed(ch) THEN ch ELSE OnlyThis(DisposeEach(ch.s, ch.ret))
    IN  Children(GetChildren(s, w))

\* dispose() one step at a time.  The calls in progress are a stack of
\* frames [w, children]: the wrapper whose dispose() is running and the
\* children its loop has still to visit.  DisposeEnter is the call of
\* dispose() on w: getChildren() makes the frame.
DisposeEnter(s, frames, w) ==
    LET Frame(ch) == IF Failed(ch) THEN ch
                     ELSE Ok(ch.s, Append(frames, [w |-> w, children |-> ch.ret]))
    IN  Frame(GetChildren(s, w))

\* The frame on top with its loop moved past the child it is about to visit
LoopAdvanced(frames) ==
    [frames EXCEPT ![Len(frames)].children = Tail(frames[Len(frames)].children)]

\* The loop is left with children to visit and this wrapper is released
DisposeStepLeavingLoop(s, frames) ==
    LET Popped(r) == Ok(r.s, SubSeq(frames, 1, Len(frames) - 1))
    IN  Popped(DisposeOnlyThis(s, frames[Len(frames)].w))

\* One step of the frame on top: child.dispose() for the next child of the
\* loop, or this.disposeOnlyThis() after the loop, which ends the frame.
DisposeStep(s, frames) ==
    LET top == frames[Len(frames)]
        Popped(r) == Ok(r.s, SubSeq(frames, 1, Len(frames) - 1))
    IN  IF top.children # <<>>
        THEN DisposeEnter(s, LoopAdvanced(frames), Head(top.children))
        ELSE Popped(DisposeOnlyThis(s, top.w))


\* The tree rooted at node with pos and end of the node at path moved by
\* offset
RECURSIVE MovedAt(_, _, _)
MovedAt(node, path, offset) ==
    IF path = <<>>
    THEN [node EXCEPT !.pos = @ + offset, !.end = @ + offset]
    ELSE [node EXCEPT !.kids[Head(path)] = MovedAt(@, Tail(path), offset)]

\* this.compilerNode.pos += offset; this.compilerNode.end += offset.  The
\* start of a node is not stored by the compiler but found in the text when
\* asked for; the model keeps the one found at the parse.
OffsetThis(s, w, offset) ==
    LET c == s.wr[w].cn
    IN  Ok([s EXCEPT !.trees[c[1]].root = MovedAt(@, c[2], offset)], undefined)

\* offsetPositions(offset): this node, then each child, recursively
RECURSIVE OffsetPositions(_, _, _)
RECURSIVE OffsetEach(_, _, _)
OffsetEach(s, ws, offset) ==
    LET Rest(r) == IF Failed(r) THEN r ELSE OffsetEach(r.s, Tail(ws), offset)
    IN  IF ws = <<>> THEN Ok(s, undefined) ELSE Rest(OffsetPositions(s, Head(ws), offset))

OffsetPositionsOnlyThis(s, w, offset) ==
    IF IsDisposed(s, w) THEN Throw(s, RemovedNodeError) ELSE OffsetThis(s, w, offset)

OffsetPositions(s, w, offset) ==
    LET Children(ch) == IF Failed(ch) THEN ch ELSE OffsetEach(ch.s, ch.ret, offset)
        This(r) == Children(GetChildren(r.s, w))
    IN  IF IsDisposed(s, w) THEN Throw(s, RemovedNodeError)
        ELSE This(OffsetThis(s, w, offset))

\* getKind() of a live wrapper ("" for a disposed one, where the source throws)
KindOf(s, w) == IF IsDisposed(s, w) THEN "" ELSE CN(s, s.wr[w].cn).kind

\* getChildrenIterator() reads this.compilerNode and this.sourceFile.compilerNode
IteratorThrows(s, w) == IsDisposed(s, w) \/ IsDisposed(s, s.wr[w].sf)

\* getFirstChildByKind(kind): the children are wrapped one by one, up to the
\* first of that kind
RECURSIVE FindFirstChildByKind(_, _, _, _, _)
FindFirstChildByKind(s, w, cs, i, kind) ==
    LET Test(r) ==
            IF KindOf(r.s, r.ret) = kind THEN r
            ELSE FindFirstChildByKind(r.s, w, cs, i + 1, kind)
    IN  IF i > Len(cs) THEN Ok(s, undefined)
        ELSE Test(GetNodeFromCompilerNode(s, cs[i], s.wr[w].sf))

GetFirstChildByKind(s, w, kind) ==
    IF IteratorThrows(s, w) THEN Throw(s, RemovedNodeError)
    ELSE FindFirstChildByKind(s, w, ChildrenOf(s, s.wr[w].cn), 1, kind)

\* TypeGuards.isBodiedNode / isBodyableNode, by kind
BodiedKinds == {"ModuleDeclaration"}
BodyableKinds == {}

\* BodiedNode.getBody(): the wrapper of compilerNode.body
GetBody(s, w) ==
    GetNodeFromCompilerNode(s, ChildrenOf(s, s.wr[w].cn)[Len(CN(s, s.wr[w].cn).kids)],
                            s.wr[w].sf)

\* getChildSyntaxList(), lines 423-429: the first SyntaxList after the brace
RECURSIVE FindListAfterBrace(_, _, _, _, _)
FindListAfterBrace(s, w, cs, i, passedBrace) ==
    LET Test(r, k) ==
            IF ~passedBrace
            THEN FindListAfterBrace(r.s, w, cs, i + 1, k = "OpenBraceToken")
            ELSE IF k = "SyntaxList" THEN r
            ELSE FindListAfterBrace(r.s, w, cs, i + 1, TRUE)
        Child(r) == Test(r, KindOf(r.s, r.ret))
    IN  IF i > Len(cs) THEN Ok(s, undefined)
        ELSE Child(GetNodeFromCompilerNode(s, cs[i], s.wr[w].sf))

\* getChildSyntaxList().  A body here always has statements, so the loop of
\* lines 415-417 runs once.
GetChildSyntaxList(s, w) ==
    LET InBody(b) == GetFirstChildByKind(b.s, b.ret, "SyntaxList")
    IN  IF IsDisposed(s, w) THEN Throw(s, RemovedNodeError)
        ELSE IF KindOf(s, w) \in BodiedKinds \cup BodyableKinds
        THEN InBody(GetBody(s, w))
        ELSE IF KindOf(s, w) = "SourceFile"
        THEN GetFirstChildByKind(s, w, "SyntaxList")
        ELSE IF IteratorThrows(s, w) THEN Throw(s, RemovedNodeError)
        ELSE FindListAfterBrace(s, w, ChildrenOf(s, s.wr[w].cn), 1, FALSE)

\* errors.throwIfNullOrUndefined(value, message)
OrThrow(r, message) ==
    IF ~Failed(r) /\ r.ret = undefined
    THEN Throw(r.s, Err("InvalidOperationError", message))
    ELSE r

GetChildSyntaxListOrThrow(s, w) ==
    OrThrow(GetChildSyntaxList(s, w), "A child syntax list was expected.")

GetParentOrThrow(s, w) ==
    OrThrow(GetParent(s, w), "A parent is required to do this operation.")

\* getParentSyntaxList(), lines 714-722: the scan of the parent's children
RECURSIVE ScanForParentList(_, _, _, _)
ScanForParentList(s, kids, i, w) ==
    LET Test(child, c, me) ==
            IF c.pos > me.pos \/ child = w THEN undefined
            ELSE IF c.kind = "SyntaxList" /\ c.pos <= me.pos /\ c.end >= me.end
            THEN child
            ELSE ScanForParentList(s, kids, i + 1, w)
    IN  IF i > Len(kids) THEN undefined
        ELSE Test(kids[i], CN(s, s.wr[kids[i]].cn), CN(s, s.wr[w].cn))

GetParentSyntaxList(s, w) ==
    LET Scan(ch) ==
            IF Failed(ch) THEN ch
            ELSE Ok(ch.s, ScanForParentList(ch.s, ch.ret, 1, w))
        In(p) ==
            IF Failed(p) \/ p.ret = undefined THEN p
            ELSE Scan(GetChildren(p.s, p.ret))
    IN  In(GetParent(s, w))

\* getParentSyntaxList() || getParentOrThrow()
ParentListOrParent(s, w) ==
    LET OrParent(l) ==
            IF Failed(l) \/ l.ret # undefined THEN l ELSE GetParentOrThrow(l.s, w)
    IN  OrParent(GetParentSyntaxList(s, w))

IndexIn(seq, x) ==
    IF \E i \in 1..Len(seq) : seq[i] = x
    THEN CHOOSE i \in 1..Len(seq) : seq[i] = x /\ \A j \in 1..(i - 1) : seq[j] # x
    ELSE 0

\* getChildIndex(): 0-based
GetChildIndex(s, w) ==
    LET Find(ch) ==
            IF Failed(ch) THEN ch
            ELSE IF IndexIn(ch.ret, w) = 0
            THEN Throw(ch.s, Err("NotImplementedError",
                     "For some reason the child's parent did not contain the child."))
            ELSE Ok(ch.s, IndexIn(ch.ret, w) - 1)
        In(p) == IF Failed(p) THEN p ELSE Find(GetChildren(p.s, p.ret))
    IN  In(ParentListOrParent(s, w))


(***************************************************************************)
(* The tree reconciler: NodeHandler.handleNode(currentNode, newNode), both *)
(* wrappers.  Children are taken from getChildrenIterator() through an     *)
(* AdvancedIterator: a child is wrapped when next() hands it out.          *)
(***************************************************************************)
TreeReplacementError(message) == Err("TreeReplacementError", message)

\* AdvancedIterator.next() when the iterator is done
IteratorDone == TreeReplacementError("Cannot get the next when at the end of the iterator.")

\* The handler installed at the changing parent of an edit.
Handler(kind, parent, childIndex, count, replacing) ==
    [kind |-> kind, parent |-> parent, childIndex |-> childIndex,
     count |-> count, replacing |-> replacing]

NoHandler == Handler("straight", undefined, 0, 0, <<>>)

Min(a, b) == IF a <= b THEN a ELSE b

RECURSIVE HandleNode(_, _, _, _)

\* handleNode(current.next(), new.next()) n times, from the positions ci and
\* ni of the two iterators over the compiler children cs and ns
RECURSIVE PairChildren(_, _, _, _, _, _, _, _, _)
PairChildren(s, cur, new, cs, ns, ci, ni, n, h) ==
    LET Rest(r) ==
            IF Failed(r) THEN r
            ELSE PairChildren(r.s, cur, new, cs, ns, ci + 1, ni + 1, n - 1, h)
        Handle(c, m) == Rest(HandleNode(m.s, c.ret, m.ret, h))
        NextNew(c) ==
            IF ni >= Len(ns) THEN Throw(c.s, IteratorDone)
            ELSE Handle(c, GetNodeFromCompilerNode(c.s, ns[ni + 1], c.s.wr[new].sf))
    IN  IF n <= 0 THEN Ok(s, undefined)
        ELSE IF ci >= Len(cs) THEN Throw(s, IteratorDone)
        ELSE NextNew(GetNodeFromCompilerNode(s, cs[ci + 1], s.wr[cur].sf))

\* handleNode(child, new.next()) for each of the wrappers ws
PairWrappedSkipped(s, ws, new, ns, ni, h) == Ok(s, undefined)

RECURSIVE PairWrapped(_, _, _, _, _, _)
PairWrapped(s, ws, new, ns, ni, h) ==
    LET Rest(r) ==
            IF Failed(r) THEN r ELSE PairWrapped(r.s, Tail(ws), new, ns, ni + 1, h)
        Handle(m) == Rest(HandleNode(m.s, Head(ws), m.ret, h))
    IN  IF ws = <<>> THEN Ok(s, undefined)
        ELSE IF ni >= Len(ns) THEN Throw(s, IteratorDone)
        ELSE Handle(GetNodeFromCompilerNode(s, ns[ni + 1], s.wr[new].sf))

\* StraightReplacementNodeHandler.handleNode: same kinds, same children, then
\* the current wrapper is rebound to the new compiler node
StraightHandleNode(s, cur, new, h) ==
    LET Rebind(r, cs, ns) ==
            IF Failed(r) THEN r
            ELSE IF Len(ns) > Len(cs)
            THEN Throw(r.s, TreeReplacementError(
                    "Error replacing tree: Should not have more children left over."))
            ELSE IF IsDisposed(r.s, new) THEN Throw(r.s, RemovedNodeError)
            ELSE FactoryReplaceCompilerNode(r.s, cur, r.s.wr[new].cn)
        Walk(cs, ns) == Rebind(PairChildren(s, cur, new, cs, ns, 0, 0, Len(cs), h), cs, ns)
    IN  IF IsDisposed(s, cur) \/ IsDisposed(s, new) THEN Throw(s, RemovedNodeError)
        ELSE IF KindOf(s, cur) # KindOf(s, new)
        THEN Throw(s, TreeReplacementError("Error replacing tree! Perhaps a syntax error was inserted."))
        ELSE IF IteratorThrows(s, cur) \/ IteratorThrows(s, new)
        THEN Throw(s, RemovedNodeError)
        ELSE Walk(ChildrenOf(s, s.wr[cur].cn), ChildrenOf(s, s.wr[new].cn))

\* disposeNodes(node) of UnwrapParentHandler.handleNode, lines 187-197
RECURSIVE DisposeNodes(_, _, _)
RECURSIVE DisposeNodesEach(_, _, _)
DisposeNodesEach(s, ws, childSyntaxList) ==
    LET Rest(r) == IF Failed(r) THEN r ELSE DisposeNodesEach(r.s, Tail(ws), childSyntaxList)
    IN  IF ws = <<>> THEN Ok(s, undefined)
        ELSE Rest(DisposeNodes(s, Head(ws), childSyntaxList))

DisposeNodesKeepList(s, node, childSyntaxList) ==
    LET OnlyThis(r) == IF Failed(r) THEN r ELSE DisposeOnlyThis(r.s, node)
        Children(ch) ==
            IF Failed(ch) THEN ch
            ELSE OnlyThis(DisposeNodesEach(ch.s, ch.ret, childSyntaxList))
    IN  IF node = childSyntaxList THEN Ok(s, undefined)
        ELSE Children(GetChildren(s, node))

DisposeNodes(s, node, childSyntaxList) ==
    LET OnlyThis(r) == IF Failed(r) THEN r ELSE DisposeOnlyThis(r.s, node)
        Children(ch) ==
            IF Failed(ch) THEN ch
            ELSE OnlyThis(DisposeNodesEach(ch.s, ch.ret, childSyntaxList))
    IN  IF node = childSyntaxList THEN DisposeOnlyThis(s, node)
        ELSE Children(GetChildren(s, node))

\* UnwrapParentHandler.handleNode(currentNode, newNode), lines 169-208
UnwrapHandleNode(s, cur, new, childIndex) ==
    LET Walk(cs, ns, m) ==
            LET \* ensure the new children iterator is done too
                Finish(p3, ni, rest) ==
                    IF Failed(p3) THEN p3
                    ELSE IF ni + rest < Len(ns)
                    THEN Throw(p3.s, Err("Error",
                            "Error replacing tree: Should not have more children left over."))
                    ELSE IF IsDisposed(p3.s, new) THEN Throw(p3.s, RemovedNodeError)
                    ELSE FactoryReplaceCompilerNode(p3.s, cur, p3.s.wr[new].cn)
                \* handle the rest
                Rest(d, ni, rest) ==
                    IF Failed(d) THEN d
                    ELSE Finish(PairChildren(d.s, cur, new, cs, ns, m + 1, ni, rest,
                                             NoHandler), ni, rest)
                \* destroy all the current child's children except for the
                \* children of its child syntax list
                Destroy(p2, currentChild, list, kids) ==
                    IF Failed(p2) THEN p2
                    ELSE Rest(DisposeNodes(p2.s, currentChild.ret, list.ret),
                              m + Len(kids.ret), Len(cs) - (m + 1))
                \* the child syntax list's children map to the new node's
                \* next children
                Map(currentChild, list, kids) ==
                    IF Failed(kids) THEN kids
                    ELSE Destroy(PairWrapped(kids.s, kids.ret, new, ns, m, NoHandler),
                                 currentChild, list, kids)
                List(currentChild, list) ==
                    IF Failed(list) THEN list
                    ELSE Map(currentChild, list, GetChildren(list.s, list.ret))
                Current(currentChild) ==
                    List(currentChild,
                         GetChildSyntaxListOrThrow(currentChild.s, currentChild.ret))
                \* replace normally until reaching the first child
                First(p1) ==
                    IF Failed(p1) THEN p1
                    ELSE IF m >= Len(cs) THEN Throw(p1.s, IteratorDone)
                    ELSE Current(GetNodeFromCompilerNode(p1.s, cs[m + 1], p1.s.wr[cur].sf))
            IN  First(PairChildren(s, cur, new, cs, ns, 0, 0, m, NoHandler))
        Start(cs, ns) == Walk(cs, ns, Min(childIndex, Min(Len(cs), Len(ns))))
    IN  IF IteratorThrows(s, cur) \/ IteratorThrows(s, new)
        THEN Throw(s, RemovedNodeError)
        ELSE Start(ChildrenOf(s, s.wr[cur].cn), ChildrenOf(s, s.wr[new].cn))

\* The handler for an insertion or replacement of children at childIndex:
\* the children before it are paired, the inserted ones are left to be
\* wrapped on demand, the replaced wrappers are disposed, the rest is paired.
ChildIndexHandleNode(s, cur, new, h) ==
    LET Walk(cs, ns) ==
            LET Finish(p2, ni, rest) ==
                    IF Failed(p2) THEN p2
                    ELSE IF ni + rest < Len(ns)
                    THEN Throw(p2.s, TreeReplacementError(
                            "Error replacing tree: Should not have more children left over."))
                    ELSE IF IsDisposed(p2.s, new) THEN Throw(p2.s, RemovedNodeError)
                    ELSE FactoryReplaceCompilerNode(p2.s, cur, p2.s.wr[new].cn)
                Rest(d, ci, ni, rest) ==
                    IF Failed(d) THEN d
                    ELSE IF rest < 0 THEN Throw(d.s, IteratorDone)
                    ELSE Finish(PairChildren(d.s, cur, new, cs, ns, ci, ni, rest,
                                             NoHandler), ni, rest)
                First(p1) ==
                    IF Failed(p1) THEN p1
                    ELSE IF h.childIndex + h.count > Len(ns) THEN Throw(p1.s, IteratorDone)
                    ELSE Rest(DisposeEach(p1.s, h.replacing),
                              h.childIndex + Len(h.replacing),
                              h.childIndex + h.count,
                              Len(cs) - (h.childIndex + Len(h.replacing)))
            IN  First(PairChildren(s, cur, new, cs, ns, 0, 0, h.childIndex, NoHandler))
    IN  IF IteratorThrows(s, cur) \/ IteratorThrows(s, new)
        THEN Throw(s, RemovedNodeError)
        ELSE Walk(ChildrenOf(s, s.wr[cur].cn), ChildrenOf(s, s.wr[new].cn))

\* The walk from the source file down: the straight handler everywhere but at
\* the changing parent, where the edit's own handler takes over.
HandleNode(s, cur, new, h) ==
    IF h.kind = "unwrap" /\ cur = h.parent
    THEN UnwrapHandleNode(s, cur, new, h.childIndex)
    ELSE IF h.kind = "childIndex" /\ cur = h.parent
    THEN ChildIndexHandleNode(s, cur, new, h)
    ELSE StraightHandleNode(s, cur, new, h)


(***************************************************************************)
(* Position and text queries of Node.                                      *)
(***************************************************************************)
\* getPos(): this.compilerNode.pos
GetPos(s, w) ==
    IF IsDisposed(s, w) THEN Throw(s, RemovedNodeError)
    ELSE Ok(s, Num(CN(s, s.wr[w].cn).pos))

\* getEnd(): this.compilerNode.end
GetEnd(s, w) ==
    IF IsDisposed(s, w) THEN Throw(s, RemovedNodeError)
    ELSE Ok(s, Num(CN(s, s.wr[w].cn).end))

\* getStart(): this.compilerNode.getStart(this.sourceFile.compilerNode)
GetStart(s, w) ==
    IF IteratorThrows(s, w) THEN Throw(s, RemovedNodeError)
    ELSE Ok(s, Num(CN(s, s.wr[w].cn).start))

\* getWidth(): this.compilerNode.getWidth(this.sourceFile.compilerNode)
GetWidth(s, w) ==
    IF IteratorThrows(s, w) THEN Throw(s, RemovedNodeError)
    ELSE Ok(s, Num(CN(s, s.wr[w].cn).end - CN(s, s.wr[w].cn).start))

\* getKind(): this.compilerNode.kind
GetKind(s, w) ==
    IF IsDisposed(s, w) THEN Throw(s, RemovedNodeError)
    ELSE Ok(s, <<KindOf(s, w)>>)

\* getText(): this.compilerNode.getText(this.sourceFile.compilerNode), the
\* given source file's text between the node's start and end
GetText(s, w) ==
    IF IteratorThrows(s, w) THEN Throw(s, RemovedNodeError)
    ELSE Ok(s, Substring(TextOf(s, s.wr[s.wr[w].sf].cn),
                         CN(s, s.wr[w].cn).start, CN(s, s.wr[w].cn).end))

\* getFullText(): this.compilerNode.getFullText(this.sourceFile.compilerNode),
\* the given source file's text between the node's pos and end
GetFullText(s, w) ==
    IF IteratorThrows(s, w) THEN Throw(s, RemovedNodeError)
    ELSE Ok(s, Substring(TextOf(s, s.wr[s.wr[w].sf].cn),
                         CN(s, s.wr[w].cn).pos, CN(s, s.wr[w].cn).end))

\* getSourceFile(): return this.sourceFile
GetSourceFileGuarded(s, w) ==
    IF IsDisposed(s, w) THEN Throw(s, RemovedNodeError) ELSE Ok(s, s.wr[w].sf)

GetSourceFile(s, w) == Ok(s, s.wr[w].sf)

(***************************************************************************)
(* Navigation by position and among siblings.  The loops run over          *)
(* getChildrenIterator(): a child is wrapped when the loop reaches it.     *)
(***************************************************************************)
\* containsRange(pos, end)
ContainsRange(s, w, pos, end) ==
    IF IsDisposed(s, w) THEN Throw(s, RemovedNodeError)
    ELSE Ok(s, CN(s, s.wr[w].cn).pos <= pos /\ end <= CN(s, s.wr[w].cn).end)

\* the test of line 470 on a child the iterator has just handed out
ChildHasPosInclusive(s, child, pos) ==
    pos >= CN(s, s.wr[child].cn).pos /\ pos <= CN(s, s.wr[child].cn).end

ChildHasPos(s, child, pos) ==
    pos >= CN(s, s.wr[child].cn).pos /\ pos < CN(s, s.wr[child].cn).end

\* the loop of lines 469-472
RECURSIVE FindChildAtPos(_, _, _, _, _)
FindChildAtPos(s, w, cs, i, pos) ==
    LET Test(r) ==
            IF Failed(r) \/ ChildHasPos(r.s, r.ret, pos) THEN r
            ELSE FindChildAtPos(r.s, w, cs, i + 1, pos)
    IN  IF i > Len(cs) THEN Ok(s, undefined)
        ELSE Test(GetNodeFromCompilerNode(s, cs[i], s.wr[w].sf))

\* getChildAtPos(pos)
GetChildAtPos(s, w, pos) ==
    IF IsDisposed(s, w) THEN Throw(s, RemovedNodeError)
    ELSE IF pos < CN(s, s.wr[w].cn).pos \/ pos >= CN(s, s.wr[w].cn).end
    THEN Ok(s, undefined)
    ELSE IF IteratorThrows(s, w) THEN Throw(s, RemovedNodeError)
    ELSE FindChildAtPos(s, w, ChildrenOf(s, s.wr[w].cn), 1, pos)

\* the loop of lines 484-490: node is undefined before the first step
RECURSIVE DescendAtPos(_, _, _, _)
DescendAtPos(s, w, node, pos) ==
    LET Step(nextNode) ==
            IF Failed(nextNode) THEN nextNode
            ELSE IF nextNode.ret = undefined THEN Ok(nextNode.s, node)
            ELSE DescendAtPos(nextNode.s, w, nextNode.ret, pos)
    IN  Step(GetChildAtPos(s, IF node = undefined THEN w ELSE node, pos))

\* getDescendantAtPos(pos)
GetDescendantAtPosOneStep(s, w, pos) == GetChildAtPos(s, w, pos)

GetDescendantAtPos(s, w, pos) == DescendAtPos(s, w, undefined, pos)

\* the loop of lines 502-510: nextNode is the node to descend from
RECURSIVE DescendAtStartWithWidth(_, _, _, _, _)
DescendAtStartWithWidth(s, nextNode, foundNode, start, width) ==
    LET Test(child, st, wd) ==
            IF Failed(st) THEN st
            ELSE IF Failed(wd) THEN wd
            ELSE IF st.ret = Num(start) /\ wd.ret = Num(width)
            THEN DescendAtStartWithWidth(child.s, child.ret, child.ret, start, width)
            ELSE IF foundNode # undefined THEN Ok(child.s, foundNode)
            ELSE DescendAtStartWithWidth(child.s, child.ret, foundNode, start, width)
        Step(child) ==
            IF Failed(child) THEN child
            ELSE IF child.ret = undefined THEN Ok(child.s, foundNode)
            ELSE Test(child, GetStart(child.s, child.ret), GetWidth(child.s, child.ret))
    IN  Step(GetChildAtPos(s, nextNode, start))

\* getDescendantAtStartWithWidth(start, width): the search starts at
\* this.getSourceFile()
GetDescendantAtStartWithWidth(s, w, start, width) ==
    LET From(sourceFile) ==
            IF Failed(sourceFile) THEN sourceFile
            ELSE DescendAtStartWithWidth(sourceFile.s, sourceFile.ret, undefined, start, width)
    IN  From(GetSourceFile(s, w))

\* the loop of lines 354-359: splice(0, 0, child) puts the child in front
RECURSIVE CollectPrevious(_, _, _, _, _, _)
CollectPrevious(s, parent, cs, i, w, previousSiblings) ==
    LET Test(r) ==
            IF Failed(r) THEN r
            ELSE IF r.ret = w THEN Ok(r.s, previousSiblings)
            ELSE CollectPrevious(r.s, parent, cs, i + 1, w, <<r.ret>> \o previousSiblings)
    IN  IF i > Len(cs) THEN Ok(s, previousSiblings)
        ELSE Test(GetNodeFromCompilerNode(s, cs[i], s.wr[parent].sf))

\* getPreviousSiblings()
GetPreviousSiblings(s, w) ==
    LET In(p) ==
            IF Failed(p) THEN p
            ELSE IF IteratorThrows(p.s, p.ret) THEN Throw(p.s, RemovedNodeError)
            ELSE CollectPrevious(p.s, p.ret, ChildrenOf(p.s, p.s.wr[p.ret].cn), 1, w, <<>>)
    IN  In(ParentListOrParent(s, w))

\* the loop of lines 374-381
RECURSIVE CollectNext(_, _, _, _, _, _, _)
CollectNext(s, parent, cs, i, w, foundChild, nextSiblings) ==
    LET Test(r) ==
            IF Failed(r) THEN r
            ELSE IF ~foundChild
            THEN CollectNext(r.s, parent, cs, i + 1, w, r.ret = w, nextSiblings)
            ELSE CollectNext(r.s, parent, cs, i + 1, w, TRUE, Append(nextSiblings, r.ret))
    IN  IF i > Len(cs) THEN Ok(s, nextSiblings)
        ELSE Test(GetNodeFromCompilerNode(s, cs[i], s.wr[parent].sf))

\* getNextSiblings()
GetNextSiblings(s, w) ==
    LET In(p) ==
            IF Failed(p) THEN p
            ELSE IF IteratorThrows(p.s, p.ret) THEN Throw(p.s, RemovedNodeError)
            ELSE CollectNext(p.s, p.ret, ChildrenOf(p.s, p.s.wr[p.ret].cn), 1, w, FALSE, <<>>)
    IN  In(ParentListOrParent(s, w))

(***************************************************************************)
(* The edit path.                                                          *)
(***************************************************************************)
\* getNewReplacementSourceFile({sourceFile, insertPos, newText,
\* replacingLength}): patches the text, parses it, and wraps the new source
\* file through the factory.
GetNewReplacementSourceFile(s, sourceFile, insertPos, newText, replacingLength) ==
    LET Wrap(s1) == GetNodeFromCompilerNode(s1, RootOf(Len(s1.trees)), undefined)
        Parsed(newFileText) ==
            Wrap([s EXCEPT !.trees = Append(@, [text |-> newFileText,
                                                root |-> Parse(newFileText)])])
        Patch(text) ==
            Parsed(Substring(text, 0, insertPos) \o newText
                   \o Substring(text, insertPos + replacingLength, Len(text)))
    IN  IF IsDisposed(s, sourceFile) THEN Throw(s, RemovedNodeError)
        ELSE Patch(TextOf(s, s.wr[sourceFile].cn))

\* replaceTreeWithChildIndex({replacementSourceFile, parent, childIndex,
\* childCount, replacingNodes}): the walk starts at the parent's source file
ReplaceTreeWithChildIndex(s, parent, childCount, childIndex, replacementSourceFile, replacingNodes) ==
    HandleNode(s, s.wr[parent].sf, replacementSourceFile,
               Handler("childIndex", parent, childIndex, childCount, replacingNodes))

InsertOptions(parent, childIndex, insertItemsCount, insertPos, newText, nodes, textLength) ==
    [parent |-> parent, childIndex |-> childIndex,
     insertItemsCount |-> insertItemsCount, insertPos |-> insertPos,
     newText |-> newText, nodes |-> nodes, textLength |-> textLength]

\* insertIntoParent(opts), src/unnamed/part_000 lines 227-243
InsertIntoParentWrapFirst(s, opts) ==
    LET Replace(t) ==
            IF Failed(t) THEN t
            ELSE ReplaceTreeWithChildIndex(t.s, opts.parent, opts.insertItemsCount,
                                           opts.childIndex, t.ret, opts.nodes)
        Plan(s0) ==
            Replace(GetNewReplacementSourceFile(s0, s0.wr[opts.parent].sf, opts.insertPos,
                                                opts.newText, opts.textLength))
    IN  Plan(GetChildren(s, opts.parent).s)

InsertIntoParent(s, opts) ==
    LET Replace(t) ==
            IF Failed(t) THEN t
            ELSE ReplaceTreeWithChildIndex(t.s, opts.parent, opts.insertItemsCount,
                                           opts.childIndex, t.ret, opts.nodes)
    IN  Replace(GetNewReplacementSourceFile(s, s.wr[opts.parent].sf, opts.insertPos,
                                            opts.newText, opts.textLength))

(***************************************************************************)
(* Modifiers and exports.  getModifiers(), addModifier(), removeModifier(), *)
(* toggleModifier() of ModifierableNode and getDefaultExportSymbol(),       *)
(* removeDefaultExport() of SourceFile are used by ExportableNode           *)
(* (src/unnamed/part_000); they edit the text through insertIntoParent.     *)
(***************************************************************************)
KeywordKinds == {"ExportKeyword", "DefaultKeyword"}

\* insertIntoParent(opts) of a function that has worked its options out: planned
\* is the state with the options, or the error of working them out; nothing
\* is edited when there are no options
InsertIntoParentAs(planned) ==
    IF Failed(planned) \/ planned.ret = undefined THEN planned
    ELSE InsertIntoParent(planned.s, planned.ret)

(***************************************************************************)
(* insertIntoBracesOrSourceFile(opts), src/unnamed/part_001 lines 25-76.   *)
(* A callback of the options (previousBlanklineWhen, nextBlanklineWhen,    *)
(* separatorNewlineWhen) is undefined or a function that answers the same  *)
(* for every member and structure: Boolean(TRUE) or Boolean(FALSE).        *)
(***************************************************************************)
Calls(when) == when # undefined /\ when[1]

\* StringUtils.endsWith(text, suffix)
EndsWith(text, suffix) ==
    /\ Len(suffix) <= Len(text)
    /\ SubSeq(text, Len(text) - Len(suffix) + 1, Len(text)) = suffix

\* isBlankLineAtPos(sourceFile, pos): the line containing pos contains only
\* whitespace
IsBlankLineAtPos(s, sourceFile, pos) ==
    LET text == TextOf(s, s.wr[sourceFile].cn)
        OnLineOfPos(j) ==
            \A k \in (IF j < pos THEN j ELSE pos)..((IF j < pos THEN pos ELSE j) - 1) :
                CharAt(text, k) # "\n"
    IN  \A j \in 0..(Len(text) - 1) :
            OnLineOfPos(j) => CharAt(text, j) \in {" ", "\t", "\r", "\n"}

\* getInsertPosFromIndex(index, parent, children): the front of a source
\* file, the end of the open brace of a block, or the end of the child
\* before the index
GetInsertPosFromIndex(s, index, parent, children) ==
    LET c == s.wr[parent].cn
        body == CN(s, c).kids[Len(CN(s, c).kids)]
    IN  IF index = 0
        THEN IF CN(s, c).kind = "SourceFile" THEN 0 ELSE body.kids[1].end
        ELSE CN(s, s.wr[children[index]].cn).end

\* lines 34-41: the child codes with the separator between them
RECURSIVE JoinChildCodes(_, _, _, _)
JoinChildCodes(opts, newLineChar, i, newText) ==
    IF i >= Len(opts.childCodes) THEN newText
    ELSE JoinChildCodes(opts, newLineChar, i + 1,
             newText
             \o (IF i > 0
                 THEN opts.separator
                      \o (IF Calls(opts.separatorNewlineWhen) THEN newLineChar ELSE <<>>)
                 ELSE <<>>)
             \o opts.childCodes[i + 1])

\* lines 43-48
AtTheBoundary(s, opts, insertPos, newLineChar, newText) ==
    LET parent == CN(s, s.wr[opts.parent].cn)
    IN  IF opts.index # 0 THEN opts.separator \o newText
        ELSE IF insertPos # 0 THEN newLineChar \o newText
        ELSE IF parent.end - parent.pos > 0 THEN newText \o opts.separator
        ELSE newText

\* lines 50-64: the blank lines the callbacks ask for
WithBlankLines(s, opts, insertPos, newLineChar, newText) ==
    LET previousMember == opts.index >= 1 /\ opts.index <= Len(opts.children)
        nextMember == opts.index >= 0 /\ opts.index < Len(opts.children)
        before ==
            IF Calls(opts.previousBlanklineWhen) /\ previousMember
            THEN newLineChar \o newText ELSE newText
    IN  IF /\ Calls(opts.nextBlanklineWhen)
           /\ nextMember
           /\ ~IsBlankLineAtPos(s, s.wr[opts.parent].sf, insertPos)
        THEN before \o newLineChar
        ELSE before

\* A variant of EndWithNewLine that never ends the file's text with a newline
EndWithNewLineSkipped(s, opts, newLineChar, newText) == newText

\* lines 66-67
EndWithNewLine(s, opts, newLineChar, newText) ==
    LET sourceFile == s.wr[opts.parent].sf
        nextMember == opts.index >= 0 /\ opts.index < Len(opts.children)
    IN  IF /\ CN(s, s.wr[opts.parent].cn).kind = "SourceFile"
           /\ ~nextMember
           /\ ~EndsWith(newText, newLineChar)
           /\ ~EndsWith(TextOf(s, s.wr[sourceFile].cn), <<"\n">>)
        THEN newText \o newLineChar
        ELSE newText

\* lines 32-67: newText
BracesOrSourceFileNewText(s, opts, insertPos, newLineChar) ==
    EndWithNewLine(s, opts, newLineChar,
        WithBlankLines(s, opts, insertPos, newLineChar,
            AtTheBoundary(s, opts, insertPos, newLineChar,
                JoinChildCodes(opts, newLineChar, 0, <<>>))))

\* lines 69-75: the options insertIntoParent is called with
BracesOrSourceFilePlanAt(list, opts, insertPos, newText) ==
    IF Failed(list) THEN list
    ELSE Ok(list.s, InsertOptions(list.ret, opts.index, Len(opts.childCodes),
                                  insertPos, newText, <<>>, 0))

BracesOrSourceFilePlanFor(s, opts, insertPos) ==
    BracesOrSourceFilePlanAt(GetChildSyntaxListOrThrow(s, opts.parent), opts, insertPos,
        BracesOrSourceFileNewText(s, opts, insertPos, opts.newLineKind))

BracesOrSourceFilePlan(s, opts) ==
    BracesOrSourceFilePlanFor(s, opts,
        GetInsertPosFromIndex(s, opts.index, opts.parent, opts.children))

InsertIntoBracesOrSourceFile(s, opts) ==
    InsertIntoParentAs(BracesOrSourceFilePlan(s, opts))

\* return this, at the end of a function that has not thrown
ReturnThis(r, w) == IF Failed(r) THEN r ELSE Ok(r.s, w)

\* The place of the modifiers' SyntaxList among the children of the compiler
\* node c, 0 when c has no modifiers.
ModifiersIndex(s, c) ==
    LET IsModifiers(k) == k.kind = "SyntaxList" /\ k.kids # <<>> /\ k.kids[1].kind \in KeywordKinds
        n == CN(s, c)
    IN  IF \E i \in 1..Len(n.kids) : IsModifiers(n.kids[i])
        THEN CHOOSE i \in 1..Len(n.kids) : IsModifiers(n.kids[i])
        ELSE 0

\* getModifiers(): compilerNode.modifiers through the factory
GetModifiers(s, w) ==
    IF IsDisposed(s, w) THEN Throw(s, RemovedNodeError)
    ELSE IF ModifiersIndex(s, s.wr[w].cn) = 0 THEN Ok(s, <<>>)
    ELSE WrapEach(s, ChildrenOf(s, ChildrenOf(s, s.wr[w].cn)[ModifiersIndex(s, s.wr[w].cn)]),
                  s.wr[w].sf, <<>>)

FirstOfKind(s, ws, kind) ==
    IF \E i \in 1..Len(ws) : KindOf(s, ws[i]) = kind
    THEN ws[CHOOSE i \in 1..Len(ws) :
                /\ KindOf(s, ws[i]) = kind
                /\ \A j \in 1..(i - 1) : KindOf(s, ws[j]) # kind]
    ELSE undefined

\* getFirstModifierByKind(kind)
GetFirstModifierByKind(s, w, kind) ==
    LET Pick(m) == IF Failed(m) THEN m ELSE Ok(m.s, FirstOfKind(m.s, m.ret, kind))
    IN  Pick(GetModifiers(s, w))

\* hasExportKeyword(): this.getExportKeyword() != null
HasExportKeyword(s, w) ==
    LET Has(k) == IF Failed(k) THEN k ELSE Ok(k.s, k.ret # undefined)
    IN  Has(GetFirstModifierByKind(s, w, "ExportKeyword"))

\* hasDefaultKeyword(): this.getDefaultKeyword() != null
HasDefaultKeyword(s, w) ==
    LET Has(k) == IF Failed(k) THEN k ELSE Ok(k.s, k.ret # undefined)
    IN  Has(GetFirstModifierByKind(s, w, "DefaultKeyword"))

\* sourceFile.getDefaultExportSymbol(): the symbol is the compiler node of the
\* top-level declaration that has the export and the default keyword
GetDefaultExportSymbol(s, sourceFile) ==
    LET IsDefault(k) ==
            \E i \in 1..Len(k.kids) :
                /\ k.kids[i].kind = "SyntaxList"
                /\ \E a, b \in 1..Len(k.kids[i].kids) :
                      /\ k.kids[i].kids[a].kind = "ExportKeyword"
                      /\ k.kids[i].kids[b].kind = "DefaultKeyword"
        Among(cs) ==
            IF \E i \in 1..Len(cs) : IsDefault(CN(s, cs[i]))
            THEN cs[CHOOSE i \in 1..Len(cs) :
                        /\ IsDefault(CN(s, cs[i]))
                        /\ \A j \in 1..(i - 1) : ~IsDefault(CN(s, cs[j]))]
            ELSE undefined
    IN  IF IsDisposed(s, sourceFile) THEN Throw(s, RemovedNodeError)
        ELSE Ok(s, Among(ChildrenOf(s, ChildrenOf(s, s.wr[sourceFile].cn)[1])))

\* isDefaultExport(), lines 86-100: the default keyword, or the node's symbol
\* being the file's default export symbol
IsDefaultExport(s, w) ==
    LET Symbols(d) ==
            IF Failed(d) THEN d
            ELSE Ok(d.s, d.ret # undefined /\ d.ret = d.s.wr[w].cn)
        Keyword(h) ==
            IF Failed(h) \/ h.ret = TRUE THEN h
            ELSE Symbols(GetDefaultExportSymbol(h.s, h.s.wr[w].sf))
    IN  Keyword(HasDefaultKeyword(s, w))

\* addModifier(text): nothing when the node has it; else the keyword is put
\* in its place (export first, default last), in a new SyntaxList in front of
\* the body when the node has no modifier yet.  The options it hands to
\* insertIntoParent, then the call.
AddModifierOptions(s, w, kind) ==
    LET keyword == IF kind = "ExportKeyword" THEN "e" ELSE "d"
        Body(s1) == CN(s1, s1.wr[w].cn).kids[Len(CN(s1, s1.wr[w].cn).kids)]
        First(s1) ==
            InsertOptions(w, Len(CN(s1, s1.wr[w].cn).kids) - 1, 1, Body(s1).start,
                          <<keyword, " ">>, <<>>, 0)
        Into(l, ms) ==
            IF Failed(l) THEN l
            ELSE IF kind = "ExportKeyword"
            THEN Ok(l.s, InsertOptions(l.ret, 0, 1, CN(l.s, l.s.wr[ms[1]].cn).start,
                                       <<keyword, " ">>, <<>>, 0))
            ELSE Ok(l.s, InsertOptions(l.ret, Len(ms), 1, CN(l.s, l.s.wr[ms[Len(ms)]].cn).end,
                                       <<" ", keyword>>, <<>>, 0))
        Add(m) ==
            IF Failed(m) THEN m
            ELSE IF FirstOfKind(m.s, m.ret, kind) # undefined THEN Ok(m.s, undefined)
            ELSE IF m.ret = <<>> THEN Ok(m.s, First(m.s))
            ELSE Into(GetParentSyntaxList(m.s, m.ret[1]), m.ret)
    IN  Add(GetModifiers(s, w))

AddModifier(s, w, kind) == InsertIntoParentAs(AddModifierOptions(s, w, kind))

\* this.addModifier(text) after a call that gave r
ThenAddModifier(r, w, kind) == IF Failed(r) THEN r ELSE AddModifier(r.s, w, kind)

\* removeModifier(text): nothing when the node does not have it; else the
\* keyword goes with the space that separates it, and the modifiers'
\* SyntaxList goes with its last keyword.  The options it hands to
\* insertIntoParent, then the call.
RemoveModifierOptions(s, w, kind) ==
    LET At(s1, ms, i) == CN(s1, s1.wr[ms[i]].cn)
        Body(s1) == CN(s1, s1.wr[w].cn).kids[Len(CN(s1, s1.wr[w].cn).kids)]
        From(l, ms, i) ==
            IF Failed(l) THEN l
            ELSE IF Len(ms) = 1
            THEN Ok(l.s, InsertOptions(w, ModifiersIndex(l.s, l.s.wr[w].cn) - 1, 0,
                                       At(l.s, ms, 1).start, <<>>, <<l.ret>>,
                                       Body(l.s).start - At(l.s, ms, 1).start))
            ELSE IF i = 1
            THEN Ok(l.s, InsertOptions(l.ret, 0, 0, At(l.s, ms, 1).start, <<>>, <<ms[1]>>,
                                       At(l.s, ms, 2).start - At(l.s, ms, 1).start))
            ELSE Ok(l.s, InsertOptions(l.ret, i - 1, 0, At(l.s, ms, i - 1).end, <<>>, <<ms[i]>>,
                                       At(l.s, ms, i).end - At(l.s, ms, i - 1).end))
        Remove(m) ==
            IF Failed(m) THEN m
            ELSE IF FirstOfKind(m.s, m.ret, kind) = undefined THEN Ok(m.s, undefined)
            ELSE From(GetParentSyntaxList(m.s, m.ret[1]), m.ret,
                      IndexIn(m.ret, FirstOfKind(m.s, m.ret, kind)))
    IN  Remove(GetModifiers(s, w))

RemoveModifier(s, w, kind) == InsertIntoParentAs(RemoveModifierOptions(s, w, kind))

\* toggleModifier(text, value)
ToggleModifier(s, w, kind, value) ==
    IF value THEN AddModifier(s, w, kind) ELSE RemoveModifier(s, w, kind)

\* toggleModifier(text, value) after a call that gave r
ThenToggleModifier(r, w, kind, value) ==
    IF Failed(r) THEN r ELSE ToggleModifier(r.s, w, kind, value)

\* sourceFile.removeDefaultExport(symbol): the default and the export keyword
\* of the symbol's declaration d are removed
RemoveDefaultExportOf(d) ==
    IF Failed(d) THEN d
    ELSE ThenToggleModifier(ToggleModifier(d.s, d.ret, "DefaultKeyword", FALSE),
                            d.ret, "ExportKeyword", FALSE)

RemoveDefaultExport(s, sourceFile, symbol) ==
    RemoveDefaultExportOf(GetNodeFromCompilerNode(s, symbol, sourceFile))

\* setIsDefaultExport(value), lines 106-128.  Lines 107-115: whether the node
\* is what is asked already (same), and else the file's default export symbol.
DefaultExportToReplace(s, w, value) ==
    LET Existing(sym) ==
            IF Failed(sym) THEN sym ELSE Ok(sym.s, [same |-> FALSE, symbol |-> sym.ret])
        Parent(p) ==
            IF Failed(p) THEN p
            ELSE IF KindOf(p.s, p.ret) # "SourceFile"
            THEN Throw(p.s, Err("InvalidOperationError",
                "The parent must be a source file in order to set this node as a default export."))
            ELSE Existing(GetDefaultExportSymbol(p.s, p.s.wr[w].sf))
        Is(d) ==
            IF Failed(d) THEN d
            ELSE IF value = d.ret THEN Ok(d.s, [same |-> TRUE, symbol |-> undefined])
            ELSE IF value THEN Parent(GetParentOrThrow(d.s, w))
            ELSE Existing(GetDefaultExportSymbol(d.s, d.s.wr[w].sf))
    IN  Is(IsDefaultExport(s, w))

\* lines 120-124: set this node as the one to default export
AddDefaultExport(r, w, value) ==
    IF Failed(r) \/ ~value THEN r
    ELSE ThenAddModifier(AddModifier(r.s, w, "ExportKeyword"), w, "DefaultKeyword")

\* lines 117-124 without the removal of the existing default export
SetDefaultExportKeepingOld(e, w, value) ==
    IF Failed(e) \/ e.ret.same THEN e ELSE AddDefaultExport(e, w, value)

\* lines 117-124: remove any existing default export, then set this one
SetDefaultExport(e, w, value) ==
    IF Failed(e) \/ e.ret.same THEN e
    ELSE AddDefaultExport(IF e.ret.symbol = undefined THEN e
                          ELSE RemoveDefaultExport(e.s, e.s.wr[w].sf, e.ret.symbol),
                          w, value)

SetIsDefaultExport(s, w, value) ==
    ReturnThis(SetDefaultExport(DefaultExportToReplace(s, w, value), w, value), w)

\* setIsExported(value), lines 130-138.  Lines 131-133: remove the default
\* export if it is one no matter what
NotDefaultExport(p, w) ==
    IF Failed(p) \/ KindOf(p.s, p.ret) # "SourceFile" THEN p
    ELSE SetIsDefaultExport(p.s, w, FALSE)

SetIsExportedKeepDefault(s, w, value) ==
    ReturnThis(ThenToggleModifier(GetParentOrThrow(s, w), w, "ExportKeyword", value), w)

SetIsExported(s, w, value) ==
    ReturnThis(ThenToggleModifier(NotDefaultExport(GetParentOrThrow(s, w), w),
                                  w, "ExportKeyword", value), w)

(***************************************************************************)
(* Decorator.remove() (src/src/compiler/decorator/Decorator.ts) and the    *)
(* manipulation functions it calls, removeChildren and                     *)
(* removeChildrenWithFormattingFromCollapsibleSyntaxList, which take the   *)
(* text out through insertIntoParent's planner and reconciler.             *)
(***************************************************************************)
\* getPreviousMatchingPos(text, pos, char => char === "\n")
RECURSIVE PreviousNewLinePos(_, _)
PreviousNewLinePos(text, pos) ==
    IF pos > 0 /\ CharAt(text, pos - 1) # "\n" THEN PreviousNewLinePos(text, pos - 1) ELSE pos

\* getPreviousMatchingPos(text, pos, char => char !== " " && char !== "\t")
RECURSIVE PreviousNonSpacePos(_, _)
PreviousNonSpacePos(text, pos) ==
    IF pos > 0 /\ CharAt(text, pos - 1) = " " THEN PreviousNonSpacePos(text, pos - 1) ELSE pos

\* getStartLinePos()
GetStartLinePos(s, w) ==
    LET From(t, start) ==
            IF Failed(t) THEN t
            ELSE IF Failed(start) THEN start
            ELSE Ok(s, Num(PreviousNewLinePos(t.ret, start.ret[1])))
    IN  IF IsDisposed(s, s.wr[w].sf) THEN Throw(s, RemovedNodeError)
        ELSE From(GetFullText(s, s.wr[w].sf), GetStart(s, w))

\* isFirstNodeOnLine(), lines 792-802: the loop from position i down to 0
RECURSIVE ScanBackOnLine(_, _)
ScanBackOnLine(text, i) ==
    IF i < 0 THEN FALSE
    ELSE IF CharAt(text, i) = " " \/ CharAt(text, i) = "\t" THEN ScanBackOnLine(text, i - 1)
    ELSE CharAt(text, i) = "\n"

\* isFirstNodeOnLine()
IsFirstNodeOnLine(s, w) ==
    LET From(t, start) ==
            IF Failed(t) THEN t
            ELSE IF Failed(start) THEN start
            ELSE Ok(s, Boolean(ScanBackOnLine(t.ret, start.ret[1] - 1)))
    IN  IF IsDisposed(s, s.wr[w].sf) THEN Throw(s, RemovedNodeError)
        ELSE From(GetFullText(s, s.wr[w].sf), GetStart(s, w))

\* getPreviousSibling(), without a condition
GetPreviousSibling(s, w) ==
    LET First(p) ==
            IF Failed(p) THEN p
            ELSE Ok(p.s, IF p.ret = <<>> THEN undefined ELSE p.ret[1])
    IN  First(GetPreviousSiblings(s, w))

\* getNextSibling(), without a condition
GetNextSibling(s, w) ==
    LET First(n) ==
            IF Failed(n) THEN n
            ELSE Ok(n.s, IF n.ret = <<>> THEN undefined ELSE n.ret[1])
    IN  First(GetNextSiblings(s, w))

\* getPreviousSiblingIfKind(kind)
GetPreviousSiblingIfKind(s, w, kind) ==
    LET IfKind(p) ==
            IF Failed(p) THEN p
            ELSE Ok(p.s, IF p.ret # undefined /\ KindOf(p.s, p.ret) = kind
                         THEN p.ret ELSE undefined)
    IN  IfKind(GetPreviousSibling(s, w))

\* removeChildren({children: [child], removePrecedingSpaces}): the child's
\* text goes, with the spaces in front of it when asked; the options it hands
\* to insertIntoParent, then the call
RemoveChildrenOptions(s, child, removePrecedingSpaces) ==
    LET Pos(s1) ==
            IF removePrecedingSpaces
            THEN PreviousNonSpacePos(TextOf(s1, s1.wr[child].cn), CN(s1, s1.wr[child].cn).start)
            ELSE CN(s1, s1.wr[child].cn).start
        Edit(i, parent) ==
            IF Failed(i) THEN i
            ELSE Ok(i.s, InsertOptions(parent, i.ret, 0, Pos(i.s), <<>>, <<child>>,
                                       CN(i.s, i.s.wr[child].cn).end - Pos(i.s)))
        Index(p) == IF Failed(p) THEN p ELSE Edit(GetChildIndex(p.s, child), p.ret)
    IN  Index(ParentListOrParent(s, child))

RemoveChildren(s, child, removePrecedingSpaces) ==
    InsertIntoParentAs(RemoveChildrenOptions(s, child, removePrecedingSpaces))

\* removeChildrenWithFormatting({children: [child], getSiblingFormatting}):
\* the text from the end of the previous sibling (or the child's start) to
\* the start of the next sibling (or the child's end) goes; between two
\* siblings the formatting they ask for is put: a newline if either asks for
\* one, else a space.  formatted is FALSE for FormattingKind.None.
RemoveChildrenWithFormattingOptions(s, child, thisStartLinePos, formatted) ==
    LET At(s1, v) == CN(s1, s1.wr[v].cn)
        Asks(s1, v) ==
            IF GetStartLinePos(s1, v).ret = thisStartLinePos THEN "Space" ELSE "Newline"
        Spacing(s1, prev, next) ==
            IF ~formatted \/ prev = undefined \/ next = undefined THEN <<>>
            ELSE IF "Newline" \in {Asks(s1, prev), Asks(s1, next)} THEN <<"\n">>
            ELSE <<" ">>
        Pos(s1, prev) == IF prev # undefined THEN At(s1, prev).end ELSE At(s1, child).start
        End(s1, next) == IF next # undefined THEN At(s1, next).start ELSE At(s1, child).end
        Edit(i, parent, prev, next) ==
            IF Failed(i) THEN i
            ELSE Ok(i.s, InsertOptions(parent, i.ret, 0, Pos(i.s, prev), Spacing(i.s, prev, next),
                                       <<child>>, End(i.s, next) - Pos(i.s, prev)))
        Index(p, prev, next) ==
            IF Failed(p) THEN p ELSE Edit(GetChildIndex(p.s, child), p.ret, prev, next)
        Next(n, prev) ==
            IF Failed(n) THEN n ELSE Index(ParentListOrParent(n.s, child), prev, n.ret)
        Prev(p) == IF Failed(p) THEN p ELSE Next(GetNextSibling(p.s, child), p.ret)
    IN  Prev(GetPreviousSibling(s, child))

RemoveChildrenWithFormatting(s, child, thisStartLinePos, formatted) ==
    InsertIntoParentAs(RemoveChildrenWithFormattingOptions(s, child, thisStartLinePos, formatted))

\* removeChildrenWithFormattingFromCollapsibleSyntaxList({children: [child],
\* getSiblingFormatting}): a SyntaxList that would be left empty goes itself
CollapsibleSyntaxListChild(s, child) ==
    LET List(l) ==
            IF Failed(l) THEN l
            ELSE Ok(l.s, IF Len(CN(l.s, l.s.wr[l.ret].cn).kids) = 1 THEN l.ret ELSE child)
    IN  List(OrThrow(GetParentSyntaxList(s, child), "Expected the parent to be a syntax list."))

RemoveCollapsing(removed, child, thisStartLinePos) ==
    IF Failed(removed) THEN removed
    ELSE RemoveChildrenWithFormatting(removed.s, removed.ret, thisStartLinePos,
                                      removed.ret = child)

RemoveFromCollapsibleSyntaxList(s, child, thisStartLinePos) ==
    RemoveCollapsing(CollapsibleSyntaxListChild(s, child), child, thisStartLinePos)

\* Decorator.remove(), lines 179-194: thisStartLinePos and the line of the
\* previous sibling when it is a decorator (undefined when it is not), then the
\* removal that the two call for
DecoratorLines(s, w) ==
    LET Lines(pl, thisStartLinePos) ==
            IF Failed(pl) THEN pl
            ELSE Ok(pl.s, [thisStartLinePos |-> thisStartLinePos, previousLinePos |-> pl.ret])
        Previous(previousDecorator, thisStartLinePos) ==
            IF Failed(previousDecorator) THEN previousDecorator
            ELSE IF previousDecorator.ret # undefined
            THEN Lines(GetStartLinePos(previousDecorator.s, previousDecorator.ret),
                       thisStartLinePos)
            ELSE Lines(previousDecorator, thisStartLinePos)
        Line(l) ==
            IF Failed(l) THEN l
            ELSE Previous(GetPreviousSiblingIfKind(l.s, w, "Decorator"), l.ret)
    IN  Line(GetStartLinePos(s, w))

DecoratorRemoveSpaces(lines, w) ==
    IF Failed(lines) THEN lines
    ELSE RemoveChildren(lines.s, w, TRUE)

DecoratorRemoveAt(lines, w) ==
    IF Failed(lines) THEN lines
    ELSE IF lines.ret.previousLinePos = lines.ret.thisStartLinePos
    THEN RemoveChildren(lines.s, w, TRUE)
    ELSE RemoveFromCollapsibleSyntaxList(lines.s, w, lines.ret.thisStartLinePos)

DecoratorRemove(s, w) == DecoratorRemoveAt(DecoratorLines(s, w), w)

\* SourceFile.replaceText([pos, end], text): the children's wrappers are
\* forgotten and the source file wrapper is rebound to the new parse
SourceFileReplaceText(s, w, pos, end, newText) ==
    LET Rebind(s1) == FactoryReplaceCompilerNode(s1, w, RootOf(Len(s1.trees)))
        Parsed(d, newFileText) ==
            IF Failed(d) THEN d
            ELSE Rebind([d.s EXCEPT !.trees = Append(@, [text |-> newFileText,
                                                         root |-> Parse(newFileText)])])
        Forget(ch, newFileText) ==
            IF Failed(ch) THEN ch
            ELSE Parsed(DisposeEach(ch.s, ch.ret), newFileText)
        Patch(text) ==
            Forget(GetChildren(s, w),
                   Substring(text, 0, pos) \o newText \o Substring(text, end, Len(text)))
    IN  Patch(TextOf(s, s.wr[w].cn))

\* The InvalidOperationError replaceWithText throws in its catch block; its
\* message ends with the caught error.
SingleNodeError(err) ==
    [kind |-> "InvalidOperationError",
     message |-> "replaceWithText currently only supports replacing the current node with a single new node.",
     inner |-> <<err>>]

\* replaceWithText(text), lines 828-834: parent, childIndex and the options
\* object handed to insertIntoParent (ret), or the error thrown on the way
ReplaceWithTextOptions(s, w, newText) ==
    LET Options(parent, childIndex) ==
            IF Failed(childIndex) THEN childIndex
            ELSE Ok(childIndex.s,
                    InsertOptions(parent.ret, childIndex.ret, 1,
                                  GetStart(childIndex.s, w), newText, <<w>>,
                                  GetWidth(childIndex.s, w)))
        Index(parent) ==
            IF Failed(parent) THEN parent
            ELSE Options(parent, GetChildIndex(parent.s, w))
    IN  Index(ParentListOrParent(s, w))

\* the try block of lines 831-842: the options' getStart() and getWidth()
\* are evaluated inside it
TryInsertIntoParentAtPos(s, o) ==
    IF Failed(o.insertPos) THEN Throw(s, o.insertPos.err)
    ELSE IF Failed(o.textLength) THEN Throw(s, o.textLength.err)
    ELSE InsertIntoParent(s, [o EXCEPT !.insertPos = GetPos(s, o.nodes[1]).ret[1],
                                       !.textLength = o.textLength.ret[1]])

TryInsertIntoParent(s, o) ==
    IF Failed(o.insertPos) THEN Throw(s, o.insertPos.err)
    ELSE IF Failed(o.textLength) THEN Throw(s, o.textLength.err)
    ELSE InsertIntoParent(s, [o EXCEPT !.insertPos = o.insertPos.ret[1],
                                       !.textLength = o.textLength.ret[1]])

\* the catch block of lines 843-846
CatchInsertErrorRethrown(ins) == ins

CatchInsertError(ins) ==
    IF Failed(ins) THEN Throw(ins.s, SingleNodeError(ins.err)) ELSE ins

\* line 848: parent.getChildren()[childIndex]
ReplacedChildFirst(s, parent, childIndex) ==
    LET At(ch) ==
            IF Failed(ch) THEN ch
            ELSE Ok(ch.s, IF 0 < Len(ch.ret) THEN ch.ret[1] ELSE undefined)
    IN  At(GetChildren(s, parent))

ReplacedChild(s, parent, childIndex) ==
    LET At(ch) ==
            IF Failed(ch) THEN ch
            ELSE Ok(ch.s, IF childIndex < Len(ch.ret) THEN ch.ret[childIndex + 1]
                          ELSE undefined)
    IN  At(GetChildren(s, parent))

\* replaceWithText(text), lines 821-849
ReplaceWithText(s, w, newText) ==
    LET This(r) == IF Failed(r) THEN r ELSE Ok(r.s, w)
        Result(ins, o) ==
            IF Failed(ins) THEN ins
            ELSE ReplacedChild(ins.s, o.ret.parent, o.ret.childIndex)
        Insert(o) ==
            IF Failed(o) THEN o
            ELSE Result(CatchInsertError(TryInsertIntoParent(o.s, o.ret)), o)
    IN  IF IsDisposed(s, w) THEN Throw(s, RemovedNodeError)
        ELSE IF KindOf(s, w) = "SourceFile"
        THEN This(SourceFileReplaceText(s, w, GetPos(s, w).ret[1],
                                        GetEnd(s, w).ret[1], newText))
        ELSE Insert(ReplaceWithTextOptions(s, w, newText))

\* The node's text is replaced, the patched text is parsed, and the tree is
\* reconciled by the UnwrapParentHandler installed at the node's parent
\* syntax list.  given is <<t>> to replace the node's text by t, or <<>> to
\* replace it by the text of its body's statements.
UnwrapInto(s, w, given) ==
    LET Reconcile(t, parent, childIndex) ==
            IF Failed(t) THEN t
            ELSE HandleNode(t.s, t.s.wr[w].sf, t.ret,
                            Handler("unwrap", parent.ret, childIndex.ret, 0, <<>>))
        Reparse(s1, body, me, text, parent, childIndex) ==
            Reconcile(GetNewReplacementSourceFile(s1, s1.wr[w].sf, me.start,
                          IF given = <<>> THEN Substring(text, body.pos, body.end)
                          ELSE given[1],
                          me.end - me.start),
                      parent, childIndex)
        Body(list, parent, childIndex) ==
            IF Failed(list) THEN list
            ELSE IF IteratorThrows(list.s, w) THEN Throw(list.s, RemovedNodeError)
            ELSE Reparse(list.s, CN(list.s, list.s.wr[list.ret].cn),
                         CN(list.s, list.s.wr[w].cn),
                         TextOf(list.s, list.s.wr[list.s.wr[w].sf].cn),
                         parent, childIndex)
        Index(childIndex, parent) ==
            IF Failed(childIndex) THEN childIndex
            ELSE Body(GetChildSyntaxListOrThrow(childIndex.s, w), parent, childIndex)
        In(parent) ==
            IF Failed(parent) THEN parent
            ELSE Index(GetChildIndex(parent.s, w), parent)
    IN  In(OrThrow(GetParentSyntaxList(s, w), "Expected the parent to be a syntax list."))

\* Unwrapping a bodied node: its text is replaced by the text of its body's
\* statements.
Unwrap(s, w) == UnwrapInto(s, w, <<>>)



(***************************************************************************)
(* DefaultFileSystemHost (src/src/DefaultFileSystemHost.ts lines 9-89)     *)
(* over a disk of a few paths.  A call of the fs module fails when the     *)
(* path is not what the call needs (no such file, is a directory, exists   *)
(* already) or when the system refuses it (fault).  A synchronous method   *)
(* returns or throws; an asynchronous one returns a promise, and the       *)
(* callback that resolves or rejects it runs later.                        *)
(***************************************************************************)
Paths == {"a", "b"}

MaxPending == 2

SyncMethods == {"readFile", "writeFileSync", "mkdirSync", "fileExistsSync",
                "directoryExistsSync"}
AsyncMethods == {"writeFile", "mkdir", "fileExists", "directoryExists"}

\* The fs module: [err, disk, value] of call on path.
Fs(call, d, path, fault) ==
    LET Fails == [err |-> TRUE, disk |-> d, value |-> "error"]
        Does(then, value) == [err |-> FALSE, disk |-> then, value |-> value]
    IN  IF fault THEN Fails
        ELSE CASE call = "stat" ->
                    IF d[path] = "none" THEN Fails ELSE Does(d, d[path])
               [] call = "readFile" ->
                    IF d[path] # "file" THEN Fails ELSE Does(d, "text")
               [] call = "writeFile" ->
                    IF d[path] = "dir" THEN Fails
                    ELSE Does([d EXCEPT ![path] = "file"], "undefined")
               [] call = "mkdir" ->
                    IF d[path] # "none" THEN Fails
                    ELSE Does([d EXCEPT ![path] = "dir"], "undefined")

\* How a method ended: failed is whether its fs call failed.
Outcome(method, path, r, how, value) ==
    [op |-> method, path |-> path, failed |-> r.err, how |-> how, value |-> value,
     disk |-> r.disk]

Bool(b) == IF b THEN "true" ELSE "false"

\* readFile(filePath), lines 10-12: fs.readFileSync
HostReadFile(d, path, fault) ==
    LET Read(r) == Outcome("readFile", path, r, IF r.err THEN "thrown" ELSE "returned", r.value)
    IN  Read(Fs("readFile", d, path, fault))

\* writeFile(filePath, fileText), lines 14-23, with its callback
HostWriteFile(d, path, fault) ==
    LET Written(r) == Outcome("writeFile", path, r,
                              IF r.err THEN "rejected" ELSE "resolved", r.value)
    IN  Written(Fs("writeFile", d, path, fault))

\* writeFileSync(filePath, fileText), lines 25-27
HostWriteFileSync(d, path, fault) ==
    LET Written(r) == Outcome("writeFileSync", path, r,
                              IF r.err THEN "thrown" ELSE "returned", r.value)
    IN  Written(Fs("writeFile", d, path, fault))

\* mkdir(dirPath), lines 29-38, with its callback
HostMkdir(d, path, fault) ==
    LET Made(r) == Outcome("mkdir", path, r, IF r.err THEN "rejected" ELSE "resolved", r.value)
    IN  Made(Fs("mkdir", d, path, fault))

\* mkdirSync(dirPath), lines 40-42
HostMkdirSync(d, path, fault) ==
    LET Made(r) == Outcome("mkdirSync", path, r, IF r.err THEN "thrown" ELSE "returned", r.value)
    IN  Made(Fs("mkdir", d, path, fault))

\* fileExists(filePath), lines 44-53, with its callback
HostFileExists(d, path, fault) ==
    LET Stat(r) == Outcome("fileExists", path, r, "resolved",
                           IF r.err THEN "false" ELSE Bool(r.value = "file"))
    IN  Stat(Fs("stat", d, path, fault))

\* fileExistsSync(filePath), lines 55-61
HostFileExistsSyncThrowing(d, path, fault) ==
    LET Stat(r) == Outcome("fileExistsSync", path, r, IF r.err THEN "thrown" ELSE "returned",
                           IF r.err THEN r.value ELSE Bool(r.value = "file"))
    IN  Stat(Fs("stat", d, path, fault))

HostFileExistsSync(d, path, fault) ==
    LET Stat(r) == Outcome("fileExistsSync", path, r, "returned",
                           IF r.err THEN "false" ELSE Bool(r.value = "file"))
    IN  Stat(Fs("stat", d, path, fault))

\* directoryExists(dirPath), lines 63-72, with its callback
HostDirectoryExists(d, path, fault) ==
    LET Stat(r) == Outcome("directoryExists", path, r, "resolved",
                           IF r.err THEN "false" ELSE Bool(r.value = "dir"))
    IN  Stat(Fs("stat", d, path, fault))

\* directoryExistsSync(dirPath), lines 74-80
HostDirectoryExistsSync(d, path, fault) ==
    LET Stat(r) == Outcome("directoryExistsSync", path, r, "returned",
                           IF r.err THEN "false" ELSE Bool(r.value = "dir"))
    IN  Stat(Fs("stat", d, path, fault))

HostMethod(method, d, path, fault) ==
    CASE method = "readFile" -> HostReadFile(d, path, fault)
      [] method = "writeFile" -> HostWriteFile(d, path, fault)
      [] method = "writeFileSync" -> HostWriteFileSync(d, path, fault)
      [] method = "mkdir" -> HostMkdir(d, path, fault)
      [] method = "mkdirSync" -> HostMkdirSync(d, path, fault)
      [] method = "fileExists" -> HostFileExists(d, path, fault)
      [] method = "fileExistsSync" -> HostFileExistsSync(d, path, fault)
      [] method = "directoryExists" -> HostDirectoryExists(d, path, fault)
      [] method = "directoryExistsSync" -> HostDirectoryExistsSync(d, path, fault)

HostStart ==
    /\ disk = [path \in Paths |-> "none"]
    /\ pending = {}
    /\ hostLast = [op |-> "new", path |-> "", failed |-> FALSE, how |-> "returned",
                   value |-> "undefined"]

HostEnds(o) ==
    /\ disk' = o.disk
    /\ hostLast' = [op |-> o.op, path |-> o.path, failed |-> o.failed, how |-> o.how,
                    value |-> o.value]

\* client code calls a synchronous method
HostCallSync(method, path, fault) ==
    /\ HostEnds(HostMethod(method, disk, path, fault))
    /\ UNCHANGED pending

\* client code calls an asynchronous method and gets a promise
HostCallAsync(method, path) ==
    /\ Cardinality(pending) < MaxPending
    /\ pending' = pending \cup {[op |-> method, path |-> path]}
    /\ UNCHANGED <<disk, hostLast>>

\* the fs call of a promise is made and its callback runs
HostSettle(promise, fault) ==
    /\ promise \in pending
    /\ pending' = pending \ {promise}
    /\ HostEnds(HostMethod(promise.op, disk, promise.path, fault))

HostNext ==
    \/ \E method \in SyncMethods, path \in Paths, fault \in BOOLEAN :
          HostCallSync(method, path, fault)
    \/ \E method \in AsyncMethods, path \in Paths : HostCallAsync(method, path)
    \/ \E promise \in pending, fault \in BOOLEAN : HostSettle(promise, fault)

(***************************************************************************)
(* Spec: client code working on one source file.  It starts with the       *)
(* source file's wrapper and calls the public operations on the wrappers   *)
(* it has been handed.                                                     *)
(***************************************************************************)
\* Client code makes at most MaxChanges disposing or editing calls on
\* wrappers that are not disposed (a call on a disposed wrapper is not
\* counted), and at most MaxRewraps wrappers are made for a compiler node
\* that has been wrapped before.
MaxChanges == 1
MaxRewraps == 0

InitialText == <<"{", "x", "}", " ", "y">>
ReplacementTexts == {<<"y">>, <<"x", " ", "y">>}
Queries == {"getKind", "getPos", "getText", "getSourceFile"}

Here == State(trees, wr, cache)

Record(op, w, arg, r) == [op |-> op, w |-> w, arg |-> arg, err |-> r.err, ret |-> r.ret]

Idle == [op |-> "idle", w |-> undefined, arg |-> <<>>, err |-> NoError, ret |-> undefined]

ChangingOps == {"dispose", "disposeOnlyThis", "replaceWithText", "unwrap", "handleNode",
                "insertIntoParent", "setIsExported", "setIsDefaultExport", "remove",
                "offsetPositions", "insertIntoBracesOrSourceFile"}

\* A call counts as a change unless it fails at once: on a disposed wrapper,
\* or for insertIntoParent on a parent whose source file wrapper is disposed.
Counted(op, w) ==
    /\ op \in ChangingOps
    /\ IF op = "insertIntoParent" THEN ~IsDisposed(State(trees, wr, cache), wr[w].sf)
       ELSE ~IsDisposed(State(trees, wr, cache), w)

FirstSourceFile == <<RootOf(1), 1>>

Init ==
    /\ KVStart
    /\ HostStart
    /\ trees = <<[text |-> InitialText, root |-> Parse(InitialText)]>>
    /\ wr = MapSet(EmptyMap, FirstSourceFile, [cn |-> RootOf(1), sf |-> FirstSourceFile])
    /\ cache = MapSet(EmptyMap, RootOf(1), FirstSourceFile)
    /\ held = {FirstSourceFile}
    /\ changes = 0
    /\ last = Idle

\* The outcome r of a call becomes the state; handed is what the caller got.
WithinBounds(s) == Cardinality({w \in DOMAIN s.wr : w[2] > 1}) <= MaxRewraps

Becomes(op, w, arg, r, handed) ==
    /\ last.op = "idle"
    /\ changes' = changes + (IF Counted(op, w) THEN 1 ELSE 0)
    /\ changes' <= MaxChanges
    /\ WithinBounds(r.s)
    /\ trees' = r.s.trees
    /\ wr' = r.s.wr
    /\ cache' = r.s.cache
    /\ held' = held \cup handed
    /\ last' = Record(op, w, arg, r)
    /\ UNCHANGED <<kvVars, hostVars>>

\* Each call is evaluated once: r ranges over the one outcome of the call.
DoGetChildren(w) ==
    /\ last.op = "idle"
    /\ \E r \in {GetChildren(Here, w)} :
        Becomes("getChildren", w, <<>>, r, IF Failed(r) THEN {} ELSE Range(r.ret))

DoGetParent(w) ==
    /\ last.op = "idle"
    /\ \E r \in {GetParent(Here, w)} :
        Becomes("getParent", w, <<>>, r, IF r.ret = undefined THEN {} ELSE {r.ret})

DoQuery(w, q) ==
    /\ last.op = "idle"
    /\ \E r \in {CASE q = "getKind" -> GetKind(Here, w)
                [] q = "getPos" -> GetPos(Here, w)
                [] q = "getText" -> GetText(Here, w)
                [] q = "getSourceFile" -> GetSourceFile(Here, w)} :
        Becomes(q, w, <<>>, r, {})

DoDispose(w) ==
    /\ last.op = "idle"
    /\ changes < MaxChanges \/ IsDisposed(Here, w)
    /\ \E r \in {Dispose(Here, w)} : Becomes("dispose", w, <<>>, r, {})

DoDisposeOnlyThis(w) ==
    /\ last.op = "idle"
    /\ changes < MaxChanges \/ IsDisposed(Here, w)
    /\ \E r \in {DisposeOnlyThis(Here, w)} : Becomes("disposeOnlyThis", w, <<>>, r, {})

DoReplaceWithText(w, t) ==
    /\ last.op = "idle"
    /\ changes < MaxChanges \/ IsDisposed(Here, w)
    /\ \E r \in {ReplaceWithText(Here, w, t)} :
          Becomes("replaceWithText", w, t, r, IF r.ret = undefined THEN {} ELSE {r.ret})

DoUnwrap(w) ==
    /\ last.op = "idle"
    /\ changes < MaxChanges \/ IsDisposed(Here, w)
    /\ KindOf(Here, w) \in BodiedKinds
    /\ \E r \in {Unwrap(Here, w)} : Becomes("unwrap", w, <<>>, r, {})

\* Client code has looked at the outcome and moves on.
Continue ==
    /\ last.op # "idle"
    /\ last' = Idle
    /\ UNCHANGED <<kvVars, hostVars, trees, wr, cache, held, changes>>

Next ==
    \/ \E w \in held : DoGetChildren(w)
    \/ \E w \in held : DoGetParent(w)
    \/ \E w \in held, q \in Queries : DoQuery(w, q)
    \/ \E w \in held : DoDispose(w)
    \/ \E w \in held : DoDisposeOnlyThis(w)
    \/ \E w \in held, t \in ReplacementTexts : DoReplaceWithText(w, t)
    \/ \E w \in held : DoUnwrap(w)
    \/ Continue

Spec == Init /\ [][Next]_vars

SpecKV == Init /\ [][KVNext /\ UNCHANGED <<engineVars, hostVars>>]_vars

SpecHost == Init /\ [][HostNext /\ UNCHANGED <<kvVars, engineVars>>]_vars

(***************************************************************************)
(* The manipulation functions driven directly.                             *)
(*   SpecHandler  UnwrapParentHandler.handleNode with a new tree parsed    *)
(*                from a text that need not be the one an unwrap produces; *)
(*   SpecInsert   insertIntoParent.                                        *)
(***************************************************************************)
\* What the bodied node's text is replaced by: nothing, one statement (what
\* unwrapping {x} produces), two statements.
HandlerTexts == {<<>>, <<"x">>, <<"x", " ", "x">>}

\* insertIntoParent as insertIntoBracesOrSourceFile calls it (part_001 lines
\* 69-75): one item, nothing replaced; where and what to insert.
Insertions ==
    {[childIndex |-> 0, insertPos |-> 0, newText |-> <<"y", " ">>],
     [childIndex |-> 1, insertPos |-> 3, newText |-> <<" ", "y">>],
     [childIndex |-> 1, insertPos |-> 2, newText |-> <<" ", "y">>],
     [childIndex |-> 0, insertPos |-> 5, newText |-> <<" ", "x">>]}

DoInsertIntoParent(w, e) ==
    /\ last.op = "idle"
    /\ changes < MaxChanges \/ ~Counted("insertIntoParent", w)
    /\ \E r \in {InsertIntoParent(Here, InsertOptions(w, e.childIndex, 1, e.insertPos,
                                                      e.newText, <<>>, 0))} :
          Becomes("insertIntoParent", w, e, r, {})

DoHandleUnwrap(w, t) ==
    /\ last.op = "idle"
    /\ changes < MaxChanges \/ IsDisposed(Here, w)
    /\ KindOf(Here, w) \in BodiedKinds
    /\ \E r \in {UnwrapInto(Here, w, <<t>>)} : Becomes("handleNode", w, t, r, {})

NextHandler ==
    \/ \E w \in held : DoGetChildren(w)
    \/ \E w \in held, t \in HandlerTexts : DoHandleUnwrap(w, t)
    \/ Continue

SpecHandler == Init /\ [][NextHandler]_vars

NextInsert ==
    \/ \E w \in held : DoGetChildren(w)
    \/ \E w \in held, e \in Insertions : DoInsertIntoParent(w, e)
    \/ \E w \in held, t \in ReplacementTexts : DoReplaceWithText(w, t)
    \/ \E w \in held : DoDisposeOnlyThis(w)
    \/ Continue

SpecInsert == Init /\ [][NextInsert]_vars

(***************************************************************************)
(* SpecExport: client code that sets and clears the export of the          *)
(* declarations of one of several source files.                            *)
(***************************************************************************)
ExportTexts ==
    {<<"{", "x", "}">>,
     <<"e", " ", "{", "x", "}">>,
     <<"e", " ", "d", " ", "{", "x", "}">>,
     <<"e", " ", "d", " ", "{", "}", " ", "{", "}">>,
     <<"{", "e", " ", "{", "}", "}">>}

InitExport ==
    /\ KVStart
    /\ HostStart
    /\ \E t \in ExportTexts : trees = <<[text |-> t, root |-> Parse(t)]>>
    /\ wr = MapSet(EmptyMap, FirstSourceFile, [cn |-> RootOf(1), sf |-> FirstSourceFile])
    /\ cache = MapSet(EmptyMap, RootOf(1), FirstSourceFile)
    /\ held = {FirstSourceFile}
    /\ changes = 0
    /\ last = Idle

DoHasExportKeyword(w) ==
    /\ last.op = "idle"
    /\ KindOf(Here, w) = "ModuleDeclaration"
    /\ \E r \in {HasExportKeyword(Here, w)} : Becomes("hasExportKeyword", w, <<>>, r, {})

DoSetIsExported(w, value) ==
    /\ last.op = "idle"
    /\ changes < MaxChanges
    /\ KindOf(Here, w) = "ModuleDeclaration"
    /\ \E r \in {SetIsExported(Here, w, value)} : Becomes("setIsExported", w, value, r, {})

DoSetIsDefaultExport(w, value) ==
    /\ last.op = "idle"
    /\ changes < MaxChanges
    /\ KindOf(Here, w) = "ModuleDeclaration"
    /\ \E r \in {SetIsDefaultExport(Here, w, value)} :
          Becomes("setIsDefaultExport", w, value, r, {})

NextExport ==
    \/ \E w \in held : DoGetChildren(w)
    \/ \E w \in held : DoHasExportKeyword(w)
    \/ \E w \in held, value \in BOOLEAN : DoSetIsExported(w, value)
    \/ Continue

SpecExport == InitExport /\ [][NextExport]_vars

\* setIsDefaultExport() on declarations of the same files.
NextDefaultExport ==
    \/ \E w \in held : DoGetChildren(w)
    \/ \E w \in held, value \in BOOLEAN : DoSetIsDefaultExport(w, value)
    \/ Continue

SpecDefaultExport == InitExport /\ [][NextDefaultExport]_vars

(***************************************************************************)
(* SpecBraces: client code inserting statements into one of several source *)
(* files or into a block of it through insertIntoBracesOrSourceFile.       *)
(***************************************************************************)
\* The children the callers pass: the members of the parent's child list
MembersOfList(list) == IF Failed(list) THEN list ELSE GetChildren(list.s, list.ret)

MembersOf(s, w) == MembersOfList(GetChildSyntaxListOrThrow(s, w))

BracesTexts ==
    {<<>>, <<"x">>, <<"x", "\n">>, <<"\n", "x">>, <<"{", "}">>, <<"{", "x", "}">>}

\* The client holds the source file and its statements.
InitBracesHolding(t, members) ==
    /\ KVStart
    /\ HostStart
    /\ trees = t
    /\ wr = members.s.wr
    /\ cache = members.s.cache
    /\ held = {FirstSourceFile} \cup Range(members.ret)
    /\ changes = 0
    /\ last = Idle

InitBracesOf(t) ==
    InitBracesHolding(t, MembersOf(State(t, MapSet(EmptyMap, FirstSourceFile, [cn |-> RootOf(1), sf |-> FirstSourceFile]), MapSet(EmptyMap, RootOf(1), FirstSourceFile)), FirstSourceFile))

InitBraces == \E t \in BracesTexts : InitBracesOf(<<[text |-> t, root |-> Parse(t)]>>)

\* manipulationSettings.getNewLineKind()
NewLineKinds == {<<"\n">>, <<"\r", "\n">>}

\* The callbacks of a caller: none, or one of the three
Whens ==
    {[previousBlanklineWhen |-> p, nextBlanklineWhen |-> n, separatorNewlineWhen |-> b] :
        <<p, n, b>> \in {<<undefined, undefined, undefined>>,
                        <<Boolean(TRUE), undefined, undefined>>,
                        <<undefined, Boolean(TRUE), undefined>>,
                        <<undefined, undefined, Boolean(TRUE)>>}}

\* What the callers hand over besides the parent, its children and the index
BracesInputs ==
    [childCodes : {<<>>, << <<"x">> >>, << <<"x">>, <<"y">> >>},
     separator : {<<" ">>, <<"\n">>},
     newLineKind : NewLineKinds,
     when : Whens]

BracesOptions(parent, children, index, e) ==
    [parent |-> parent, children |-> children, index |-> index,
     childCodes |-> e.childCodes, separator |-> e.separator,
     newLineKind |-> e.newLineKind,
     previousBlanklineWhen |-> e.when.previousBlanklineWhen,
     nextBlanklineWhen |-> e.when.nextBlanklineWhen,
     separatorNewlineWhen |-> e.when.separatorNewlineWhen]

InsertedInto(w, opts, members) ==
    \E r \in {InsertIntoBracesOrSourceFile(members.s, opts)} :
        Becomes("insertIntoBracesOrSourceFile", w,
                [opts |-> opts, handed |-> BracesOrSourceFilePlan(members.s, opts).ret],
                r, {})

DoInsertIntoBracesOrSourceFile(w, e) ==
    /\ last.op = "idle"
    /\ changes < MaxChanges
    /\ KindOf(Here, w) \in {"SourceFile", "ModuleDeclaration"}
    /\ \E members \in {MembersOf(Here, w)} :
          /\ ~Failed(members)
          /\ \E index \in 0..Len(members.ret) :
                InsertedInto(w, BracesOptions(w, members.ret, index, e), members)

NextBraces ==
    \/ \E w \in held, e \in BracesInputs : DoInsertIntoBracesOrSourceFile(w, e)
    \/ Continue

SpecBraces == InitBraces /\ [][NextBraces]_vars

(***************************************************************************)
(* SpecDecorator: client code that removes decorators from the declaration *)
(* of one of several source files.                                         *)
(***************************************************************************)
DecoratorTexts ==
    {<<"@", "x", "\n", "{", "y", "}">>,
     <<" ", "@", "x", " ", "{", "}">>,
     <<"@", "x", " ", "@", "y", "{", "}">>,
     <<"@", "x", "\n", "@", "y", "\n", "{", "}">>,
     <<"@", "x", "\n", "@", "y", " ", "@", "x", "{", "}">>}

InitDecorator ==
    /\ KVStart
    /\ HostStart
    /\ \E t \in DecoratorTexts : trees = <<[text |-> t, root |-> Parse(t)]>>
    /\ wr = MapSet(EmptyMap, FirstSourceFile, [cn |-> RootOf(1), sf |-> FirstSourceFile])
    /\ cache = MapSet(EmptyMap, RootOf(1), FirstSourceFile)
    /\ held = {FirstSourceFile}
    /\ changes = 0
    /\ last = Idle

DoDecoratorRemove(w) ==
    /\ last.op = "idle"
    /\ changes < MaxChanges
    /\ KindOf(Here, w) = "Decorator"
    /\ \E r \in {DecoratorRemove(Here, w)} : Becomes("remove", w, <<>>, r, {})

NextDecorator ==
    \/ \E w \in held : DoGetChildren(w)
    \/ \E w \in held : DoDecoratorRemove(w)
    \/ Continue

SpecDecorator == InitDecorator /\ [][NextDecorator]_vars

(***************************************************************************)
(* SpecNavigate: client code that only looks around, in one of several     *)
(* source files, asking for children, for the node at a position and for   *)
(* siblings.  Nothing is disposed or edited here.                          *)
(***************************************************************************)
NavigateTexts ==
    {InitialText, <<" ", "{", "x", "}", " ">>, <<"{", " ", "}", "y">>}

MaxPos == 5
Positions == 0..MaxPos

InitNavigate ==
    /\ KVStart
    /\ HostStart
    /\ \E t \in NavigateTexts : trees = <<[text |-> t, root |-> Parse(t)]>>
    /\ wr = MapSet(EmptyMap, FirstSourceFile, [cn |-> RootOf(1), sf |-> FirstSourceFile])
    /\ cache = MapSet(EmptyMap, RootOf(1), FirstSourceFile)
    /\ held = {FirstSourceFile}
    /\ changes = 0
    /\ last = Idle

DoGetChildAtPos(w, pos) ==
    /\ last.op = "idle"
    /\ \E r \in {GetChildAtPos(Here, w, pos)} :
          Becomes("getChildAtPos", w, pos, r, IF r.ret = undefined THEN {} ELSE {r.ret})

DoGetDescendantAtPos(w, pos) ==
    /\ last.op = "idle"
    /\ \E r \in {GetDescendantAtPos(Here, w, pos)} :
          Becomes("getDescendantAtPos", w, pos, r, IF r.ret = undefined THEN {} ELSE {r.ret})

DoGetPreviousSiblings(w) ==
    /\ last.op = "idle"
    /\ \E r \in {GetPreviousSiblings(Here, w)} :
          Becomes("getPreviousSiblings", w, <<>>, r, IF Failed(r) THEN {} ELSE Range(r.ret))

DoGetNextSiblings(w) ==
    /\ last.op = "idle"
    /\ \E r \in {GetNextSiblings(Here, w)} :
          Becomes("getNextSiblings", w, <<>>, r, IF Failed(r) THEN {} ELSE Range(r.ret))

NextNavigate ==
    \/ \E w \in held : DoGetChildren(w)
    \/ \E w \in held, pos \in Positions : DoGetChildAtPos(w, pos)
    \/ \E w \in held, pos \in Positions : DoGetDescendantAtPos(w, pos)
    \/ \E w \in held : DoGetPreviousSiblings(w)
    \/ \E w \in held : DoGetNextSiblings(w)
    \/ Continue

SpecNavigate == InitNavigate /\ [][NextNavigate]_vars

(***************************************************************************)
(* SpecQuery: client code asking the nodes of one of several source files  *)
(* where they are: in which list, where on their line, and for the         *)
(* descendant with a given start and width.                                *)
(***************************************************************************)
\* The files of SpecNavigate, and files of two lines
QueryTexts ==
    NavigateTexts \cup {<<"x", "\n", " ", "y">>, <<" ", "x", " ", "y">>, <<"{", "\n", "x", "}">>}

InitQuery ==
    /\ KVStart
    /\ HostStart
    /\ \E t \in QueryTexts : trees = <<[text |-> t, root |-> Parse(t)]>>
    /\ wr = MapSet(EmptyMap, FirstSourceFile, [cn |-> RootOf(1), sf |-> FirstSourceFile])
    /\ cache = MapSet(EmptyMap, RootOf(1), FirstSourceFile)
    /\ held = {FirstSourceFile}
    /\ changes = 0
    /\ last = Idle

DoIsFirstNodeOnLine(w) ==
    /\ last.op = "idle"
    /\ \E r \in {IsFirstNodeOnLine(Here, w)} : Becomes("isFirstNodeOnLine", w, <<>>, r, {})

Widths == {1, 2, 3}

DoGetDescendantAtStartWithWidth(w, start, width) ==
    /\ last.op = "idle"
    /\ \E r \in {GetDescendantAtStartWithWidth(Here, w, start, width)} :
          Becomes("getDescendantAtStartWithWidth", w, <<start, width>>, r,
                  IF r.ret = undefined THEN {} ELSE {r.ret})

DoGetParentSyntaxList(w) ==
    /\ last.op = "idle"
    /\ \E r \in {GetParentSyntaxList(Here, w)} :
          Becomes("getParentSyntaxList", w, <<>>, r,
                  IF r.ret = undefined THEN {} ELSE {r.ret})

NextQuery ==
    \/ \E w \in held : DoGetChildren(w)
    \/ \E w \in held : DoGetParentSyntaxList(w)
    \/ \E w \in held : DoIsFirstNodeOnLine(w)
    \/ \E w \in held, start \in Positions, width \in Widths :
          DoGetDescendantAtStartWithWidth(w, start, width)
    \/ Continue

SpecQuery == InitQuery /\ [][NextQuery]_vars


(***************************************************************************)
(* SpecOffset: the reconciler moving nodes of one of the source files of   *)
(* SpecNavigate with offsetPositions.                                      *)
(***************************************************************************)
Offsets == {-1, 2}

DoOffsetPositions(w, offset) ==
    /\ last.op = "idle"
    /\ changes < MaxChanges \/ IsDisposed(Here, w)
    /\ \E r \in {OffsetPositions(Here, w, offset)} :
          Becomes("offsetPositions", w, offset, r, {})

NextOffset ==
    \/ \E w \in held : DoGetChildren(w)
    \/ \E w \in held : DoDisposeOnlyThis(w)
    \/ \E w \in held, offset \in Offsets : DoOffsetPositions(w, offset)
    \/ Continue

SpecOffset == InitNavigate /\ [][NextOffset]_vars

(***************************************************************************)
(* SpecDispose: dispose() followed step by step.  While a dispose() call   *)
(* runs, last.op is "disposing" and last.arg is the stack of its frames;   *)
(* client code runs again when the call has returned or thrown.            *)
(***************************************************************************)
\* What a step of dispose() leaves: the call goes on, has thrown or is over.
Disposing(w, r) ==
    /\ WithinBounds(r.s)
    /\ trees' = r.s.trees
    /\ wr' = r.s.wr
    /\ cache' = r.s.cache
    /\ last' = IF Failed(r) \/ r.ret = <<>>
               THEN Record("dispose", w, <<>>, [r EXCEPT !.ret = undefined])
               ELSE [op |-> "disposing", w |-> w, arg |-> r.ret,
                     err |-> NoError, ret |-> undefined]
    /\ UNCHANGED <<kvVars, hostVars, held>>

DoDisposeCall(w) ==
    /\ last.op = "idle"
    /\ changes < MaxChanges \/ IsDisposed(Here, w)
    /\ changes' = changes + (IF Counted("dispose", w) THEN 1 ELSE 0)
    /\ \E r \in {DisposeEnter(Here, <<>>, w)} : Disposing(w, r)

DoDisposeStep ==
    /\ last.op = "disposing"
    /\ UNCHANGED changes
    /\ \E r \in {DisposeStep(Here, last.arg)} : Disposing(last.w, r)

DisposeReturned ==
    /\ last.op # "disposing"
    /\ Continue

NextDispose ==
    \/ \E w \in held : DoGetChildren(w)
    \/ \E w \in held : DoDisposeOnlyThis(w)
    \/ \E w \in held : DoDisposeCall(w)
    \/ DoDisposeStep
    \/ DisposeReturned

SpecDispose == Init /\ [][NextDispose]_vars


(***************************************************************************)
(* Properties of the wrapper cache and of disposal (Spec).                 *)
(***************************************************************************)
\* C1: in every reachable state every cache key k maps to a wrapper whose
\* compilerNode is k, and no two distinct wrappers held by the cache
\* reference the same compiler node.
CacheUniqueness ==
    LET inCache == {v \in {cache[k] : k \in DOMAIN cache} : wr[v].cn # undefined}
    IN  /\ \A k \in DOMAIN cache : cache[k] \in DOMAIN wr /\ wr[cache[k]].cn = k
        \* as many compiler nodes as non-disposed wrappers held by the cache
        /\ Cardinality({wr[v].cn : v \in inCache}) = Cardinality(inCache)

\* C1 witness: after an unwrap, a wrapper client code holds has been rebound
\* to a compiler node that the reconciler had wrapped for its walk; the cache
\* holds the client's wrapper and not the other one, which is not disposed.
CacheUniquenessWitness ==
    /\ last.op = "unwrap" /\ last.err = NoError
    /\ \E v \in held : \E t \in DOMAIN wr :
          /\ v # t /\ wr[v].cn # undefined /\ wr[t].cn = wr[v].cn
          /\ cache[wr[v].cn] = v

\* C2 (as the code has it): an operation that reads the compiler node of a
\* disposed wrapper (getKind, getPos, getText, getChildren, getParent,
\* replaceWithText) fails with the InvalidOperationError of the compilerNode
\* getter and changes nothing; getSourceFile does not read it and returns the
\* stored source file without an error.
DisposedWrapperOperations ==
    [][(/\ last'.op \in {"getKind", "getPos", "getText", "getChildren",
                         "getParent", "replaceWithText", "getSourceFile"}
        /\ IsDisposed(Here, last'.w))
       => IF last'.op = "getSourceFile"
          THEN last'.err = NoError /\ last'.ret = wr[last'.w].sf
          ELSE last'.err = RemovedNodeError /\ UNCHANGED <<trees, wr, cache>>]_vars

\* C2 witness: getText called on a disposed wrapper whose source file is
\* still wrapped has failed.
DisposedWrapperOperationsWitness ==
    /\ last.op = "getText" /\ IsDisposed(Here, last.w)
    /\ ~IsDisposed(Here, wr[last.w].sf)
    /\ last.err = RemovedNodeError

\* C2 as stated: every operation on a disposed wrapper, getSourceFile
\* included, fails with InvalidOperationError.
EveryOperationOnDisposedFails ==
    [][(/\ last'.op \in {"getKind", "getPos", "getText", "getChildren",
                         "getParent", "getSourceFile"}
        /\ IsDisposed(Here, last'.w))
       => last'.err.kind = "InvalidOperationError"]_vars

\* C3: after dispose() returns on a wrapper w, no compiler node of w's subtree
\* has a cache entry, and w, every wrapper the cache held for a node of the
\* subtree and every wrapper made during the call has an undefined
\* compiler-node pointer.
DisposeClearsSubtree ==
    [][(last'.op = "dispose" /\ last'.err = NoError)
       => LET w == last'.w
              subtree == SubtreeOf(Here, wr[w].cn)
          IN  /\ wr'[w].cn = undefined
              /\ \A c \in subtree : ~MapHas(cache', c)
              /\ \A c \in subtree :
                    MapHas(cache, c) => wr'[cache[c]].cn = undefined
              /\ \A v \in (DOMAIN wr') \ (DOMAIN wr) :
                    v[1] \in subtree /\ wr'[v].cn = undefined]_vars

\* C3 witness: dispose() has returned on a wrapper, and the wrapper of a
\* grandchild is disposed with it.
DisposeClearsSubtreeWitness ==
    /\ last.op = "dispose" /\ last.err = NoError
    /\ \E v \in DOMAIN wr :
          /\ v[1][1] = last.w[1][1]
          /\ Len(v[1][2]) >= Len(last.w[1][2]) + 2
          /\ SubSeq(v[1][2], 1, Len(last.w[1][2])) = last.w[1][2]
          /\ wr[v].cn = undefined

\* C4 as stated: dispose() on an already-disposed wrapper raises no error and
\* changes neither the cache nor any wrapper.
DisposeIsIdempotent ==
    [][(last'.op = "dispose" /\ IsDisposed(Here, last'.w))
       => last'.err = NoError /\ UNCHANGED <<wr, cache>>]_vars

\* C5: a wrapper that a step rebinds to a new compiler node keeps its source
\* file, and the factory returns that same wrapper for the new compiler node;
\* a wrapper the factory returns for its compiler node is still the one it
\* returns after any step the wrapper survives.
RebindingPreservesIdentity ==
    [][\/ UNCHANGED <<wr, cache>>
       \/ \A v \in DOMAIN wr :
          /\ (wr'[v].cn # undefined /\ wr'[v].cn # wr[v].cn)
             => /\ wr'[v].sf = wr[v].sf
                /\ LET post == State(trees', wr', cache')
                       r == GetNodeFromCompilerNode(post, wr'[v].cn, wr'[v].sf)
                   IN  r.ret = v /\ r.s = post
          /\ (/\ wr[v].cn # undefined /\ MapHas(cache, wr[v].cn)
              /\ cache[wr[v].cn] = v /\ wr'[v].cn # undefined)
             => MapHas(cache', wr'[v].cn) /\ cache'[wr'[v].cn] = v]_vars

\* C5 witness: getChildren, called after an edit, has returned a wrapper that
\* was made for a node of the first tree and is bound to a node of the second.
RebindingPreservesIdentityWitness ==
    /\ last.op = "getChildren" /\ last.err = NoError
    /\ \E i \in 1..Len(last.ret) :
          /\ last.ret[i][1][1] = 1
          /\ wr[last.ret[i]].cn # undefined
          /\ wr[last.ret[i]].cn[1] = 2
          /\ last.ret[i] \in held

(***************************************************************************)
(* Properties of KeyValueCache (SpecKV).                                   *)
(***************************************************************************)
\* C6 as stated: after replaceKey(k1, k2) on a cache that has k1 with value v,
\* k2 different from k1, get(k2) = v and get(k1) = undefined, and the entries
\* under the other keys are unchanged.
ReplaceKeyMovesValue ==
    (/\ kvLast.op = "replaceKey" /\ MapHas(kvLast.pre, kvLast.key)
     /\ kvLast.newKey # kvLast.key)
    => /\ KVGet(kvItems, kvLast.newKey) = kvLast.pre[kvLast.key]
       /\ KVGet(kvItems, kvLast.key) = undefined
       /\ \A k \in KVKeys \ {kvLast.key, kvLast.newKey} :
             /\ MapHas(kvItems, k) = MapHas(kvLast.pre, k)
             /\ MapHas(kvItems, k) => kvItems[k] = kvLast.pre[k]

\* C7 as stated: replaceKey(kMissing, k) fails with an InvalidOperation error
\* and leaves the cache contents unchanged.
ReplaceMissingKeyIsInvalidOperation ==
    (kvLast.op = "replaceKey" /\ ~MapHas(kvLast.pre, kvLast.key))
    => kvLast.err.kind = "InvalidOperationError" /\ kvItems = kvLast.pre

\* C8 (as the code has it): an insertion under a key that is mapped to a
\* different value raises no error and overwrites: after set(k, v) the key k
\* holds v, after replaceKey(k1, k2) the key k2 holds what k1 held and k1 is
\* gone; the value that was under the key is no longer stored there, and the
\* entries under the other keys are unchanged.
InsertionOverwrites ==
    /\ (/\ kvLast.op = "set" /\ MapHas(kvLast.pre, kvLast.key)
        /\ kvLast.pre[kvLast.key] # kvLast.value)
       => /\ kvLast.err = NoError
          /\ kvItems = [k \in DOMAIN kvLast.pre |->
                          IF k = kvLast.key THEN kvLast.value ELSE kvLast.pre[k]]
    /\ (/\ kvLast.op = "replaceKey" /\ MapHas(kvLast.pre, kvLast.key)
        /\ MapHas(kvLast.pre, kvLast.newKey)
        /\ kvLast.pre[kvLast.newKey] # kvLast.pre[kvLast.key])
       => /\ kvLast.err = NoError
          /\ kvItems = [k \in (DOMAIN kvLast.pre) \ {kvLast.key} |->
                          IF k = kvLast.newKey THEN kvLast.pre[kvLast.key]
                          ELSE kvLast.pre[k]]

\* C8 witness: replaceKey has moved a value onto a key that held another one.
InsertionOverwritesWitness ==
    /\ kvLast.op = "replaceKey" /\ kvLast.err = NoError
    /\ MapHas(kvLast.pre, kvLast.key) /\ MapHas(kvLast.pre, kvLast.newKey)
    /\ kvLast.pre[kvLast.newKey] # kvLast.pre[kvLast.key]
    /\ kvItems[kvLast.newKey] = kvLast.pre[kvLast.key]
    /\ Cardinality(DOMAIN kvItems) = Cardinality(DOMAIN kvLast.pre) - 1

\* C8 as stated: an insertion under a key that is mapped to a different value
\* (by set, or by replaceKey onto a present newKey) fails with
\* InvalidOperation and does not overwrite.
DuplicateInsertionFails ==
    (\/ /\ kvLast.op = "set" /\ MapHas(kvLast.pre, kvLast.key)
        /\ kvLast.pre[kvLast.key] # kvLast.value
     \/ /\ kvLast.op = "replaceKey" /\ MapHas(kvLast.pre, kvLast.key)
        /\ MapHas(kvLast.pre, kvLast.newKey)
        /\ kvLast.pre[kvLast.newKey] # kvLast.pre[kvLast.key])
    => kvLast.err.kind = "InvalidOperationError" /\ kvItems = kvLast.pre

\* C30 as stated: get(k) returns the value most recently stored under k,
\* whatever it is, 0 included, and undefined for a key without an entry; and
\* getOrCreate(k, f) calls f exactly when k has no entry, returning the
\* stored value otherwise.
GetReturnsTheStoredValue ==
    /\ \A k \in KVKeys :
          KVGet(kvItems, k) = IF MapHas(kvItems, k) THEN kvItems[k] ELSE undefined
    /\ kvLast.op = "set" => KVGet(kvItems, kvLast.key) = kvLast.value
    /\ kvLast.op = "getOrCreate-miss"
          => ~MapHas(kvLast.pre, kvLast.key) /\ kvLast.ret = kvLast.value
    /\ kvLast.op = "getOrCreate-hit"
          => MapHas(kvLast.pre, kvLast.key) /\ kvLast.ret = kvLast.pre[kvLast.key]

(***************************************************************************)
(* Properties of replaceWithText (Spec).                                   *)
(***************************************************************************)
\* C9 (as the code has it): an error thrown by replaceWithText before its try
\* block (the node is disposed, the parent or the child index cannot be
\* found) reaches the caller as it was thrown; an error thrown inside the try
\* block, by insertIntoParent, reaches the caller wrapped: the caller gets a
\* new InvalidOperationError with another message, built from the error
\* insertIntoParent threw.
EditErrorsReachCaller ==
    [][(last'.op = "replaceWithText" /\ KindOf(Here, last'.w) # "SourceFile")
       => LET o == ReplaceWithTextOptions(Here, last'.w, last'.arg) IN
          IF Failed(o) THEN last'.err = o.err
          ELSE LET ins == TryInsertIntoParent(o.s, o.ret) IN
               Failed(ins) => /\ last'.err.kind = "InvalidOperationError"
                              /\ last'.err.inner = <<ins.err>>
                              /\ last'.err.message # ins.err.message]_vars

\* C9 witness: replaceWithText has thrown an InvalidOperationError built from
\* the TreeReplacementError of the reconciler.
EditErrorsReachCallerWitness ==
    /\ last.op = "replaceWithText"
    /\ last.err.kind = "InvalidOperationError"
    /\ last.err.inner # <<>>
    /\ last.err.inner[1].kind = "TreeReplacementError"

\* C9 as stated: the error the caller of replaceWithText receives is the
\* error that insertIntoParent raised, same kind and message.
EditErrorsReachCallerUnchanged ==
    [][(/\ last'.op = "replaceWithText" /\ ~IsDisposed(Here, last'.w)
        /\ KindOf(Here, last'.w) # "SourceFile")
       => LET o == ReplaceWithTextOptions(Here, last'.w, last'.arg)
              ins == TryInsertIntoParent(o.s, o.ret)
          IN  (~Failed(o) /\ Failed(ins))
              => /\ last'.err.kind = ins.err.kind
                 /\ last'.err.message = ins.err.message]_vars

BodyListOf(c) == <<c[1], c[2] \o <<1, 2>>>>

\* The wrapper the factory hands out for compiler node c in state s: the
\* cached one, or the one it would make.
WrapperOf(s, c) == IF MapHas(s.cache, c) THEN s.cache[c] ELSE NewWrapperId(s, c)

UnwrapMismatchIsTreeReplacementError ==
    [][(last'.op = "handleNode" /\ Len(trees') = Len(trees) + 1)
       => LET w == last'.w
              parent == GetParentSyntaxList(Here, w).ret
              cs == ChildrenOf(Here, wr[parent].cn)
              kids == ChildrenOf(Here, BodyListOf(wr[w].cn))
              ns == ChildrenOf(State(trees', wr', cache'),
                               <<Len(trees'), wr[parent].cn[2]>>)
          IN  Len(ns) # Len(cs) - 1 + Len(kids)
              => last'.err.kind = "TreeReplacementError"]_vars

\* The compiler nodes of the statements of the unwrapped node w, which the
\* handler re-hosts, each with everything below it
RehostedNodes(w) ==
    LET kids == ChildrenOf(Here, BodyListOf(wr[w].cn))
    IN  UNION {SubtreeOf(Here, kids[i]) : i \in 1..Len(kids)}

\* The compiler nodes that go with the unwrapped node w: w's, its braces and
\* its statements' list
RemovedNodes(w) == SubtreeOf(Here, wr[w].cn) \ RehostedNodes(w)

\* The order in which the call that has just been made rebound and released
\* wrappers: the call made again on the state before it, with a log.
HandleNodeLog == UnwrapInto(Logged(Here), last'.w, <<last'.arg>>).s.log

\* The places of the log with an event of this kind on one of these nodes
Events(log, what, nodes) ==
    {i \in 1..Len(log) : log[i].what = what /\ log[i].cn \in nodes}

PlannerFailureChangesNothing ==
    [][(last'.op = "insertIntoParent")
       => LET e == last'.arg
              t == GetNewReplacementSourceFile(Here, wr[last'.w].sf, e.insertPos,
                                               e.newText, 0)
          IN  Failed(t) => last'.err = t.err /\ UNCHANGED <<trees, wr, cache>>]_vars

\* C13 witness: insertIntoParent was called on a parent that is not disposed
\* and whose source file wrapper is, and has failed on reading the text.
PlannerFailureChangesNothingWitness ==
    /\ last.op = "insertIntoParent" /\ last.err = RemovedNodeError
    /\ ~IsDisposed(Here, last.w)
    /\ IsDisposed(Here, wr[last.w].sf)
    /\ Len(trees) = 1

\* The tree is consistent: the node of every wrapper is in the tree its source
\* file wrapper is bound to.  An edit that fails in the reconciler leaves
\* wrappers in the tree of the replacement source file, and the tree is not
\* consistent from then on.
TreeConsistent(s) ==
    \A v \in DOMAIN s.wr :
        ~IsDisposed(s, v) /\ ~IsDisposed(s, s.wr[v].sf)
        => s.wr[v].cn[1] = s.wr[s.wr[v].sf].cn[1]

ChildrenHolding(s, c, pos) ==
    {i \in 1..Len(CN(s, c).kids) :
        CN(s, ChildrenOf(s, c)[i]).pos <= pos /\ pos < CN(s, ChildrenOf(s, c)[i]).end}

\* C15: on a node whose children can be read, getChildAtPos(pos) returns
\* undefined when pos is outside [getPos(), getEnd()); otherwise at most one
\* direct child c has c.getPos() <= pos < c.getEnd(), and the result is that
\* child, or undefined when there is none.
ChildAtPosIsTheOneChild ==
    [][(last'.op = "getChildAtPos" /\ ~IteratorThrows(Here, last'.w))
       => LET c == wr[last'.w].cn
              pos == last'.arg
              hits == ChildrenHolding(Here, c, pos)
          IN  /\ last'.err = NoError
              /\ IF pos < CN(Here, c).pos \/ pos >= CN(Here, c).end
                 THEN last'.ret = undefined
                 ELSE /\ Cardinality(hits) <= 1
                      /\ IF hits = {} THEN last'.ret = undefined
                         ELSE /\ last'.ret # undefined
                              /\ \E i \in hits : wr'[last'.ret].cn = ChildrenOf(Here, c)[i]]_vars

\* C15 witness: position 3 of "{x} y" is where the module declaration ends
\* and the statement y begins; the statement list returns y.
ChildAtPosIsTheOneChildWitness ==
    /\ last.op = "getChildAtPos" /\ last.err = NoError /\ last.arg = 3
    /\ KindOf(Here, last.w) = "SyntaxList"
    /\ last.ret # undefined
    /\ KindOf(Here, last.ret) = "Identifier"
    /\ CN(Here, wr[last.ret].cn).pos = 3

\* The compiler node c[1], c[2][1..k]: the ancestor of c at depth k.
AncestorAt(c, k) == <<c[1], SubSeq(c[2], 1, k)>>

\* C16: on a live source file and for 0 <= pos < getEnd(),
\* getDescendantAtPos(pos) returns a node: a proper descendant, every node on
\* the way down to it holds pos (the getChildAtPos chain), none of its own
\* children does (the deepest), and it satisfies containsRange(pos, pos).
DescendantAtPosIsDeepest ==
    [][(/\ last'.op = "getDescendantAtPos"
        /\ KindOf(Here, last'.w) = "SourceFile"
        /\ last'.arg < CN(Here, wr[last'.w].cn).end)
       => LET c == wr[last'.w].cn
              pos == last'.arg
              post == State(trees', wr', cache')
              d == wr'[last'.ret].cn
          IN  /\ last'.err = NoError
              /\ last'.ret # undefined
              /\ d # undefined /\ d[1] = c[1] /\ Len(d[2]) > 0
              /\ \A k \in 1..Len(d[2]) :
                    d[2][k] \in ChildrenHolding(Here, AncestorAt(d, k - 1), pos)
              /\ ChildrenHolding(Here, d, pos) = {}
              /\ ContainsRange(post, last'.ret, pos, pos).ret = TRUE]_vars

\* C16 witness: position 1 of "{x} y" is the x inside the braces, five
\* levels below the source file.
DescendantAtPosIsDeepestWitness ==
    /\ last.op = "getDescendantAtPos" /\ last.err = NoError /\ last.arg = 1
    /\ last.w = FirstSourceFile
    /\ last.ret # undefined
    /\ KindOf(Here, last.ret) = "Identifier"
    /\ Len(wr[last.ret].cn[2]) = 5

Reverse(seq) == [i \in 1..Len(seq) |-> seq[Len(seq) + 1 - i]]

\* C17: for a node n with a parent, the previous siblings reversed, n, and
\* the next siblings are, in order, the children of the node n is a direct
\* child of: its parent SyntaxList if one contains it, else its parent.
SiblingsSpanTheChildren ==
    [][(last'.op = "getPreviousSiblings" /\ last'.err = NoError)
       => LET w == last'.w
              post == State(trees', wr', cache')
              next == GetNextSiblings(post, w)
              all == Reverse(last'.ret) \o <<w>> \o next.ret
              container == AncestorAt(wr[w].cn, Len(wr[w].cn[2]) - 1)
          IN  /\ next.err = NoError
              /\ [i \in 1..Len(all) |-> next.s.wr[all[i]].cn] = ChildrenOf(Here, container)]_vars

(***************************************************************************)
(* Properties of ExportableNode (SpecExport).                              *)
(***************************************************************************)
\* C18: setIsExported(v) on a declaration succeeds and returns the node;
\* afterwards the node's wrapper is not disposed, hasExportKeyword() is v,
\* and a node whose parent is the source file is not a default export.
SetIsExportedSetsExport ==
    [][(last'.op = "setIsExported")
       => LET w == last'.w
              post == State(trees', wr', cache')
          IN  /\ last'.err = NoError
              /\ last'.ret = w
              /\ ~IsDisposed(post, w)
              /\ HasExportKeyword(post, w).ret = last'.arg
              /\ CN(Here, ParentOf(Here, wr[w].cn)).kind = "SourceFile"
                    => IsDefaultExport(post, w).ret = FALSE]_vars

\* C18 witness: setIsExported(false) on the default export "e d {x}" has
\* removed both keywords in two edits and the declaration's wrapper is the
\* one the call was made on.
SetIsExportedSetsExportWitness ==
    /\ last.op = "setIsExported" /\ last.err = NoError /\ last.arg = FALSE
    /\ trees[1].text = <<"e", " ", "d", " ", "{", "x", "}">>
    /\ Len(trees) = 3
    /\ trees[3].text = <<"{", "x", "}">>
    /\ ~IsDisposed(Here, last.w)
    /\ wr[last.w].cn = <<3, <<1, 1>>>>

\* The top-level declarations of the newest tree that have the default
\* keyword
DefaultExportsOf(s) ==
    LET list == ChildrenOf(s, RootOf(Len(s.trees)))[1]
        HasDefault(k) ==
            \E i \in 1..Len(k.kids) :
                /\ k.kids[i].kind = "SyntaxList"
                /\ \E b \in 1..Len(k.kids[i].kids) : k.kids[i].kids[b].kind = "DefaultKeyword"
    IN  {c \in Range(ChildrenOf(s, list)) : HasDefault(CN(s, c))}

\* C28: setIsDefaultExport(value) on a declaration whose isDefaultExport()
\* is value already edits nothing and returns the node; with value true on a
\* node whose parent is not the source file it fails with
\* InvalidOperationError and edits nothing; otherwise it succeeds, returns
\* the node, whose wrapper stays live, and afterwards the node is the only
\* default export of its file (value true) or the file has none (false).
SetIsDefaultExportSetsTheOnlyDefault ==
    [][(last'.op = "setIsDefaultExport")
       => LET w == last'.w
              value == last'.arg
              post == State(trees', wr', cache')
              was == IsDefaultExport(Here, w).ret
              top == CN(Here, ParentOf(Here, wr[w].cn)).kind = "SourceFile"
          IN  IF value = was
              THEN last'.err = NoError /\ last'.ret = w /\ trees' = trees
              ELSE IF value /\ ~top
              THEN last'.err.kind = "InvalidOperationError" /\ trees' = trees
              ELSE /\ last'.err = NoError
                   /\ last'.ret = w
                   /\ ~IsDisposed(post, w)
                   /\ wr'[w].cn[1] = Len(trees')
                   /\ IsDefaultExport(post, w).ret = value
                   /\ DefaultExportsOf(post) = IF value THEN {wr'[w].cn} ELSE {}]_vars

\* C28 witness: setIsDefaultExport(true) on the second declaration of
\* `e d {} {}` has taken the default export from the first one.
SetIsDefaultExportSetsTheOnlyDefaultWitness ==
    /\ last.op = "setIsDefaultExport" /\ last.err = NoError /\ last.arg = TRUE
    /\ trees[1].text = <<"e", " ", "d", " ", "{", "}", " ", "{", "}">>
    /\ trees[Len(trees)].text = <<"{", "}", " ", "e", " ", "d", " ", "{", "}">>
    /\ wr[last.w].cn = <<Len(trees), <<1, 2>>>>

(***************************************************************************)
(* Properties of Decorator.remove() (SpecDecorator).                       *)
(***************************************************************************)
\* C19: remove() on a decorator succeeds with one edit; the decorator's
\* wrapper is disposed and out of the cache; the wrapper of the decorated
\* declaration is live, the same object, bound to the declaration of the new
\* tree, which has one decorator fewer.  The text loses the decorator and
\* its separator: after a decorator that starts on the same line, the spaces
\* in front of it; between two other decorators, everything up to the next
\* one, with a newline put between them; and a sole decorator on a line of
\* its own goes with its line, so that the declaration starts where the
\* decorator started.
DecoratorRemoveRemoves ==
    [][(last'.op = "remove")
       => LET w == last'.w
              c == wr[w].cn
              n == CN(Here, c)
              i == c[2][Len(c[2])]
              list == AncestorAt(c, Len(c[2]) - 1)
              decl == AncestorAt(c, Len(c[2]) - 2)
              old == TextOf(Here, c)
              post == State(trees', wr', cache')
              new == trees'[Len(trees')].text
              newDecl == <<Len(trees'), decl[2]>>
              Sibling(j) == CN(Here, list).kids[j]
              Line(pos) == PreviousNewLinePos(old, pos)
              after == i > 1 /\ Line(Sibling(i - 1).start) = Line(n.start)
              between == i > 1 /\ i < Len(CN(Here, list).kids) /\ ~after
              sole == Len(CN(Here, list).kids) = 1
              Decorators(k) == IF k.kids[1].kind = "SyntaxList" /\ k.kids[1].kids[1].kind = "Decorator"
                               THEN Len(k.kids[1].kids) ELSE 0
          IN  /\ last'.err = NoError
              /\ Len(trees') = Len(trees) + 1
              /\ IsDisposed(post, w)
              /\ ~MapHas(cache', c)
              /\ wr'[WrapperOf(Here, decl)].cn = newDecl
              /\ MapHas(cache', newDecl)
              /\ cache'[newDecl] = WrapperOf(Here, decl)
              /\ CN(post, newDecl).kind = "ModuleDeclaration"
              /\ Decorators(CN(post, newDecl)) = Decorators(CN(Here, decl)) - 1
              /\ after => new = SubSeq(old, 1, PreviousNonSpacePos(old, n.start))
                                    \o SubSeq(old, n.end + 1, Len(old))
              /\ between => new = SubSeq(old, 1, Sibling(i - 1).end) \o <<"\n">>
                                      \o SubSeq(old, Sibling(i + 1).start + 1, Len(old))
              /\ sole => /\ new = SubSeq(old, 1, n.start)
                                    \o SubSeq(old, CN(Here, decl).kids[2].start + 1, Len(old))
                         /\ CN(post, newDecl).start = n.start]_vars

\* C19 witness: the sole decorator of "@x\n{y}", on a line of its own, has
\* been removed; client code holds the declaration's wrapper, made for the
\* first tree and now bound to the declaration of the second, which starts
\* at 0.
DecoratorRemoveRemovesWitness ==
    /\ last.op = "remove" /\ last.err = NoError
    /\ trees[1].text = <<"@", "x", "\n", "{", "y", "}">>
    /\ Len(trees) = 2
    /\ trees[2].text = <<"{", "y", "}">>
    /\ IsDisposed(Here, last.w)
    /\ \E v \in held : /\ v[1] = <<1, <<1, 1>>>>
                       /\ wr[v].cn = <<2, <<1, 1>>>>
                       /\ CN(Here, wr[v].cn).start = 0

(***************************************************************************)
(* Properties of DefaultFileSystemHost (SpecHost).                         *)
(***************************************************************************)
ExistenceChecks == {"fileExists", "fileExistsSync", "directoryExists", "directoryExistsSync"}

\* C20, as amended: when the fs call of a method fails, the four existence
\* checks (fileExists, fileExistsSync, directoryExists, directoryExistsSync)
\* end normally with false, and every other method (readFile, writeFile,
\* writeFileSync, mkdir, mkdirSync) ends with a thrown error or a rejected
\* promise.
HostFailureSurface ==
    hostLast.failed
    => IF hostLast.op \in ExistenceChecks
       THEN hostLast.how \in {"returned", "resolved"} /\ hostLast.value = "false"
       ELSE hostLast.how \in {"thrown", "rejected"}

\* C20 witness: the stat of directoryExistsSync failed and it returned false.
HostFailureSurfaceWitness ==
    /\ hostLast.op = "directoryExistsSync"
    /\ hostLast.failed
    /\ hostLast.how = "returned"
    /\ hostLast.value = "false"

\* C20 as stated: fileExists is the only method that turns a failure into a
\* value; a failure of any other method is thrown or rejects the promise.
OnlyFileExistsCoercesFailure ==
    hostLast.failed
    => IF hostLast.op = "fileExists"
       THEN hostLast.how = "resolved" /\ hostLast.value = "false"
       ELSE hostLast.how \in {"thrown", "rejected"}


(***************************************************************************)
(* Properties of dispose() step by step (SpecDispose).                     *)
(***************************************************************************)
\* The compiler nodes strictly below c
DescendantsOf(s, c) == SubtreeOf(s, c) \ {c}

\* The wrappers a step of dispose() unbinds or takes out of the cache
Released ==
    {v \in DOMAIN wr :
        /\ wr[v].cn # undefined
        /\ \/ wr'[v].cn = undefined
           \/ /\ MapHas(cache, wr[v].cn) /\ cache[wr[v].cn] = v
              /\ ~MapHas(cache', wr[v].cn)}

\* C21: while dispose() runs on a wrapper, a step that removes the cache
\* entry of a wrapper w or clears its pointer does both, and it is taken
\* when no compiler node below w's has a cache entry or a bound wrapper any
\* more: the descendants go first, and w is never unbound while one of its
\* descendants is still in the cache.
DescendantsBeforeSelf ==
    [][last.op = "disposing"
       => \A w \in Released :
            /\ wr'[w].cn = undefined
            /\ ~MapHas(cache', wr[w].cn)
            /\ \A d \in DescendantsOf(Here, wr[w].cn) :
                  /\ ~MapHas(cache, d)
                  /\ \A v \in DOMAIN wr : wr[v].cn # d]_vars

\* C21 witness: dispose() on the source file has returned, and the source
\* file, its statements' list and a statement in it are all unbound.
DescendantsBeforeSelfWitness ==
    /\ last.op = "dispose" /\ last.err = NoError /\ last.w = FirstSourceFile
    /\ IsDisposed(Here, FirstSourceFile)
    /\ Cardinality({v \in DOMAIN wr : wr[v].cn = undefined}) >= 3
    /\ cache = EmptyMap

\* C23: disposeOnlyThis() on a wrapper w that is not disposed removes w's
\* cache entry and no other, and clears w's pointer and no other: every other
\* wrapper, each child and descendant of w among them, keeps its compiler
\* node and its cache entry, and no wrapper is made.
DisposeOnlyThisTouchesOnlyThis ==
    [][(last'.op = "disposeOnlyThis" /\ ~IsDisposed(Here, last'.w))
       => LET w == last'.w IN
          /\ last'.err = NoError
          /\ wr'[w].cn = undefined
          /\ DOMAIN wr' = DOMAIN wr
          /\ \A v \in DOMAIN wr \ {w} : wr'[v] = wr[v]
          /\ DOMAIN cache' = DOMAIN cache \ {wr[w].cn}
          /\ \A k \in DOMAIN cache' : cache'[k] = cache[k]
          /\ trees' = trees]_vars

\* C23 witness: disposeOnlyThis() has released a wrapper whose child had a
\* wrapper in the cache, and the child's wrapper is still bound and cached.
DisposeOnlyThisTouchesOnlyThisWitness ==
    /\ last.op = "disposeOnlyThis" /\ last.err = NoError
    /\ IsDisposed(Here, last.w)
    /\ ~MapHas(cache, last.w[1])
    /\ \E v \in DOMAIN wr :
          /\ ~IsDisposed(Here, v)
          /\ ParentOf(Here, wr[v].cn) = last.w[1]
          /\ MapHas(cache, wr[v].cn) /\ cache[wr[v].cn] = v

(***************************************************************************)
(* Properties of the position queries (SpecQuery).                         *)
(***************************************************************************)
\* The node a compiler node is a child of, among getChildren()
ContainerOf(c) == AncestorAt(c, Len(c[2]) - 1)

\* C24 as stated: getParentSyntaxList() returns the SyntaxList that holds
\* the node as a child, and undefined when the node is the root or is a
\* direct child of its parent; it never returns a SyntaxList that does not
\* contain the node.
ParentSyntaxListContainsNode ==
    [][(last'.op = "getParentSyntaxList" /\ ~IsDisposed(Here, last'.w))
       => LET c == wr[last'.w].cn IN
          /\ last'.err = NoError
          /\ IF c[2] # <<>> /\ CN(Here, ContainerOf(c)).kind = "SyntaxList"
             THEN last'.ret # undefined /\ wr'[last'.ret].cn = ContainerOf(c)
             ELSE last'.ret = undefined]_vars

\* C25 as stated: isFirstNodeOnLine() is true exactly when every character
\* from the beginning of the line the node starts on up to getStart() is a
\* space or a tab, on the first line of the file as on any other.
FirstNodeOnLineIffBlankBefore ==
    [][(last'.op = "isFirstNodeOnLine" /\ ~IsDisposed(Here, last'.w))
       => LET text == TextOf(Here, wr[last'.w].cn)
              start == CN(Here, wr[last'.w].cn).start
          IN  /\ last'.err = NoError
              /\ last'.ret = Boolean(\A i \in PreviousNewLinePos(text, start)..(start - 1) :
                                         CharAt(text, i) \in {" ", "\t"})]_vars

(***************************************************************************)
(* Properties of offsetPositions (SpecOffset).                             *)
(***************************************************************************)
\* C26: offsetPositions(d) on a live node moves pos and end of the node's
\* compiler node and of every compiler node below it by d, once, and leaves
\* pos and end of every other compiler node as they were; kinds, children
\* and so widths and the order of siblings are kept, the text is not
\* touched and every wrapper stays bound to the node it was bound to.
OffsetMovesTheSubtreeOnce ==
    [][(last'.op = "offsetPositions" /\ ~IsDisposed(Here, last'.w))
       => LET c == wr[last'.w].cn
              d == last'.arg
              post == State(trees', wr', cache')
              moved == SubtreeOf(Here, c)
          IN  /\ last'.err = NoError
              /\ Len(trees') = Len(trees)
              /\ \A g \in 1..Len(trees) : trees'[g].text = trees[g].text
              /\ SubtreeOf(post, RootOf(c[1])) = SubtreeOf(Here, RootOf(c[1]))
              /\ \A n \in SubtreeOf(Here, RootOf(c[1])) :
                    LET by == IF n \in moved THEN d ELSE 0 IN
                    /\ CN(post, n).pos = CN(Here, n).pos + by
                    /\ CN(post, n).end = CN(Here, n).end + by
                    /\ CN(post, n).kind = CN(Here, n).kind
                    /\ Len(CN(post, n).kids) = Len(CN(Here, n).kids)
              /\ \A v \in DOMAIN wr : wr'[v] = wr[v]]_vars

\* C26 witness: offsetPositions(2) on the statements' list of `{x} y` has
\* moved the identifier inside the block, three levels down, from 1 to 3,
\* and the end-of-file token next to the list is where it was.
OffsetMovesTheSubtreeOnceWitness ==
    /\ last.op = "offsetPositions" /\ last.err = NoError /\ last.arg = 2
    /\ last.w = <<<<1, <<1>>>>, 1>>
    /\ trees[1].text = InitialText
    /\ \E n \in SubtreeOf(Here, <<1, <<1>>>>) :
          CN(Here, n).kind = "Identifier" /\ CN(Here, n).pos = 3 /\ CN(Here, n).end = 4
    /\ CN(Here, <<1, <<2>>>>).pos = 5

\* The compiler nodes below c that start at start and are width wide
MatchesBelow(s, c, start, width) ==
    {n \in SubtreeOf(s, c) \ {c} :
        CN(s, n).start = start /\ CN(s, n).end - CN(s, n).start = width}

\* C27 as stated: n.getDescendantAtStartWithWidth(start, width) returns the
\* deepest node below n that starts at start and is width wide, and
\* undefined when no node below n does.
DescendantAtStartWithWidthIsBelow ==
    [][(/\ last'.op = "getDescendantAtStartWithWidth"
        /\ ~IsDisposed(Here, last'.w) /\ ~IsDisposed(Here, wr[last'.w].sf))
       => LET matches == MatchesBelow(Here, wr[last'.w].cn, last'.arg[1], last'.arg[2])
          IN  /\ last'.err = NoError
              /\ IF matches = {} THEN last'.ret = undefined
                 ELSE /\ last'.ret # undefined
                      /\ wr'[last'.ret].cn \in matches
                      /\ \A m \in matches : Len(m[2]) <= Len(wr'[last'.ret].cn[2])]_vars

(***************************************************************************)
(* Properties of insertIntoBracesOrSourceFile (SpecBraces).                *)
(***************************************************************************)
\* The SyntaxList the members of a source file or of a block are in
MemberListOf(s, w) ==
    LET kids == ChildrenOf(s, s.wr[w].cn)
    IN  IF CN(s, s.wr[w].cn).kind = "SourceFile" THEN kids[1]
        ELSE ChildrenOf(s, kids[Len(kids)])[2]

\* The codes in order with `between` between two of them
RECURSIVE Joined(_, _)
Joined(codes, between) ==
    IF codes = <<>> THEN <<>>
    ELSE IF Len(codes) = 1 THEN codes[1]
    ELSE Joined(SubSeq(codes, 1, Len(codes) - 1), between) \o between \o codes[Len(codes)]

\* The text with the one adjustment at the boundary: [front, back] around it
BoundaryOf(s, o, insertPos) ==
    LET parent == CN(s, s.wr[o.parent].cn)
    IN  [front |-> IF o.index # 0 THEN o.separator
                   ELSE IF insertPos # 0 THEN o.newLineKind ELSE <<>>,
         back |-> IF o.index = 0 /\ insertPos = 0 /\ parent.end # parent.pos
                  THEN o.separator ELSE <<>>]

FileTextOf(s, w) == TextOf(s, s.wr[s.wr[w].sf].cn)

\* What is handed over apart from the text
HandsOverTheList(o, handed, pre) ==
    /\ pre.wr[handed.parent].cn = MemberListOf(pre, o.parent)
    /\ handed.childIndex = o.index
    /\ handed.insertItemsCount = Len(o.childCodes)
    /\ handed.insertPos = GetInsertPosFromIndex(pre, o.index, o.parent, o.children)

\* C29 as the specification states it, for callers without callbacks: the
\* text handed to insertIntoParent is the child codes joined by the separator
\* with exactly one adjustment at the boundary, and with no child codes the
\* text is empty and the file text is unchanged.
InsertIntoBracesAdjustsOnce ==
    [][(/\ last'.op = "insertIntoBracesOrSourceFile"
        /\ last'.arg.opts.previousBlanklineWhen = undefined
        /\ last'.arg.opts.nextBlanklineWhen = undefined
        /\ last'.arg.opts.separatorNewlineWhen = undefined)
       => LET o == last'.arg.opts
              handed == last'.arg.handed
              pre == MembersOf(Here, last'.w).s
              b == BoundaryOf(pre, o, handed.insertPos)
          IN  /\ HandsOverTheList(o, handed, pre)
              /\ handed.newText = IF o.childCodes = <<>> THEN <<>>
                                  ELSE b.front \o Joined(o.childCodes, o.separator) \o b.back
              /\ o.childCodes = <<>>
                    => FileTextOf(State(trees', wr', cache'), last'.w) = FileTextOf(Here, last'.w)]_vars

\* C29, amended: the text handed over is the child codes joined by the
\* separator (followed by the newline where separatorNewlineWhen holds), with
\* the one adjustment at the boundary, then a newline in front when
\* previousBlanklineWhen holds for the member before the index, a newline at
\* the end when nextBlanklineWhen holds for the member at the index and the
\* line at insertPos is not blank, and last a newline at the end when the
\* parent is the source file, no member is at the index, the text does not
\* end with the newline and the file text does not end with "\n".  Empty child
\* codes get the same adjustments.  The list, the index, the count and the
\* position are handed over as stated, and a successful call puts the text
\* at insertPos.
InsertIntoBracesHandsOverTheText ==
    [][(last'.op = "insertIntoBracesOrSourceFile")
       => LET o == last'.arg.opts
              handed == last'.arg.handed
              pre == MembersOf(Here, last'.w).s
              nl == o.newLineKind
              old == FileTextOf(Here, last'.w)
              b == BoundaryOf(pre, o, handed.insertPos)
              hasNext == o.index < Len(o.children)
              between == o.separator \o (IF Calls(o.separatorNewlineWhen) THEN nl ELSE <<>>)
              core == (IF Calls(o.previousBlanklineWhen) /\ o.index > 0 THEN nl ELSE <<>>)
                      \o b.front \o Joined(o.childCodes, between) \o b.back
                      \o (IF /\ Calls(o.nextBlanklineWhen)
                             /\ hasNext
                             /\ ~IsBlankLineAtPos(pre, pre.wr[o.parent].sf, handed.insertPos)
                          THEN nl ELSE <<>>)
              closing == IF /\ KindOf(Here, last'.w) = "SourceFile"
                            /\ ~hasNext
                            /\ ~EndsWith(core, nl)
                            /\ ~EndsWith(old, <<"\n">>)
                         THEN nl ELSE <<>>
          IN  /\ HandsOverTheList(o, handed, pre)
              /\ handed.newText = core \o closing
              /\ last'.err = NoError
                    => FileTextOf(State(trees', wr', cache'), last'.w)
                         = Substring(old, 0, handed.insertPos) \o handed.newText
                           \o Substring(old, handed.insertPos, Len(old))]_vars

\* C29 witness: `x` inserted at the end of the file `x` with a space as the
\* separator has handed over a space, the code and the closing newline.
InsertIntoBracesHandsOverTheTextWitness ==
    /\ last.op = "insertIntoBracesOrSourceFile" /\ last.err = NoError
    /\ last.arg.opts.index = 1
    /\ last.arg.opts.childCodes = << <<"x">> >>
    /\ last.arg.handed.newText = <<" ", "x", "\n">>
    /\ trees[1].text = <<"x">>
    /\ trees[Len(trees)].text = <<"x", " ", "x", "\n">>
====
